---- MODULE Spec2Model ----
(***************************************************************************)
(* Model of the bread-strava data-access layer (src/src/types/index.ts,    *)
(* the services/firebase module) and of the auth thunks that call it       *)
(* (src/src/store/postsSlice.ts, second half: authSlice).                  *)
(*                                                                         *)
(* The remote store is modelled by the semantics of the SDK primitives the *)
(* code uses: doc.set (create or overwrite), doc.update and batch.update   *)
(* (fail when the document is missing), batch.set, batch.delete,           *)
(* FieldValue.arrayUnion / arrayRemove / increment, collection.add (fresh  *)
(* id), and WriteBatch.commit (all writes or none).  Every await on the    *)
(* store is one step; calls issued by different sessions interleave at     *)
(* these steps.                                                            *)
(***************************************************************************)
EXTENDS Integers, Sequences, FiniteSets, TLC

\* ---------------------------------------------------------------- bounds
NumUsers == 2      \* identity-provider accounts that can exist
NumSess  == 2      \* app sessions (devices) issuing calls concurrently
NumPosts == 3      \* post ids the store can hand out
MaxUserOps == 4    \* register / login / follow / unfollow calls in one run
MaxPostOps == 3    \* mutating calls on posts, likes and comments in one run

Uid  == 1..NumUsers
Sess == 1..NumSess

\* post ids are store-generated: a caller can pass an id the store has handed
\* out (the post may have been deleted since) or a string that is no post id
\* and never will be; GhostPost stands for the latter
GhostPost == NumPosts + 1

VARIABLES
    accounts,   \* identity provider: uids that have an account
    users,      \* collection users: uid -> document, DOMAIN = existing docs
    posts,      \* collection posts: post id -> document
    likes,      \* collection likes: the keys <<postId, userId>> that exist
    comments,   \* collection comments: the documents, in creation order
    made,       \* number of post ids the store has handed out
    ops,        \* number of mutating calls issued so far (run budget)
    call,       \* per session: the multi-step call in flight and its locals
    last,       \* the step that produced the current state, with its outcome
    prev,       \* the step before it, when that was a successful follow or like
    storage,    \* blob store: the references that hold an uploaded image
    postsSlice, \* the posts state container of one client
    authSlice   \* the auth state container of one client

userStore == <<accounts, users>>
postStore == <<posts, likes, comments, made>>

slices == <<postsSlice, authSlice>>

vars == <<accounts, users, posts, likes, comments, made, ops, call, last, prev,
          storage, postsSlice, authSlice>>

\* ---------------------------------------------------------------- helpers
Range(s) == {s[i] : i \in 1..Len(s)}

NoDup(s) == \A i, j \in 1..Len(s) : i # j => s[i] # s[j]

ListFields == {"following", "followers", "savedPosts"}

\* an arrayUnion that appends without looking
ArrayUnionAlways(s, x) == Append(s, x)

\* FieldValue.arrayUnion: append unless already present
ArrayUnion(s, x) == IF x \in Range(s) THEN s ELSE Append(s, x)

\* FieldValue.arrayRemove: remove every occurrence
ArrayRemove(s, x) == SelectSeq(s, LAMBDA e : e # x)

\* doc.set(data): create the document or replace it as a whole
SetDoc(coll, id, data) ==
    [x \in (DOMAIN coll) \cup {id} |-> IF x = id THEN data ELSE coll[x]]

\* a user document; `has` is the set of list fields physically stored
UserDoc(id, has, following, followers, savedPosts) ==
    [id |-> id, has |-> has, following |-> following, followers |-> followers,
     savedPosts |-> savedPosts]

\* getUserProfile's normalisation: a missing list field reads as []
Following(us, u) == IF u \in DOMAIN us THEN us[u].following ELSE <<>>
Followers(us, u) == IF u \in DOMAIN us THEN us[u].followers ELSE <<>>

\* one array write of a batch: [doc, field, kind, val]
ArrayWrite(doc, field, kind, val) ==
    [doc |-> doc, field |-> field, kind |-> kind, val |-> val]

ApplyArrayWrite(us, w) ==
    [us EXCEPT ![w.doc] =
        [@ EXCEPT ![w.field] = IF w.kind = "union"
                               THEN ArrayUnion(@, w.val)
                               ELSE ArrayRemove(@, w.val),
                  !.has = @ \cup {w.field}]]

RECURSIVE ApplyArrayWrites(_, _)
ApplyArrayWrites(us, ws) ==
    IF ws = <<>> THEN us
    ELSE ApplyArrayWrites(ApplyArrayWrite(us, Head(ws)), Tail(ws))

\* WriteBatch.commit on users: batch.update needs every target to exist;
\* `up` is whether the store accepts the request at all (network, backend)
UserBatchOk(us, ws, up) == up /\ \A i \in 1..Len(ws) : ws[i].doc \in DOMAIN us

\* a broken commit that applies the writes whose documents exist
UserBatchCommitPartial(us, ws, up) ==
    IF ~up THEN us
    ELSE ApplyArrayWrites(us, SelectSeq(ws, LAMBDA w : w.doc \in DOMAIN us))

UserBatchCommit(us, ws, up) ==
    IF UserBatchOk(us, ws, up) THEN ApplyArrayWrites(us, ws) ELSE us

\* ---------------------------------------------------------------- steps
\* op: the step; ok: it succeeded (for a check: the value returned);
\* a, b: its arguments; pre: a number it read or replaced; out: a list returned
Step(op, ok, a, b, pre, out) ==
    [op |-> op, ok |-> ok, a |-> a, b |-> b, pre |-> pre, out |-> out]

NoStep == Step("none", FALSE, 0, 0, 0, <<>>)

\* prev keeps the step before only when it opened a pair: a successful
\* followUser or likePost
Record(op, ok, a, b, pre, out) ==
    /\ last' = Step(op, ok, a, b, pre, out)
    /\ prev' = IF last.op \in {"followUser", "likePost"} /\ last.ok
               THEN last ELSE NoStep

\* locals of a call: u a user id, p and q post ids, snap / n values it read,
\* acc the results it has collected
\* the post object of a call that was given none
NoMeta ==
    [isOrig |-> "absent", hasConn |-> FALSE, likes |-> 0, comments |-> 0,
     undef |-> {}]

Locals(op, pc, u, p, q, snap, n) ==
    [op |-> op, pc |-> pc, u |-> u, p |-> p, q |-> q, snap |-> snap, n |-> n,
     acc |-> <<>>, meta |-> NoMeta]

Idle == Locals("idle", "idle", 0, 0, 0, <<>>, 0)

\* null as an error message, as a cached post and as a cached user
Null == "null"
NullPost == [id |-> 0, rev |-> 0]
NullUser == 0

\* initialState of the posts state container
PostsInitialState ==
    [posts |-> << >>, userPosts |-> << >>, savedPosts |-> << >>,
     currentPost |-> NullPost, loading |-> FALSE, refreshing |-> FALSE,
     error |-> Null]

\* initialState of the auth state container
AuthInitialState == [user |-> NullUser, loading |-> FALSE, error |-> Null]

Init ==
    /\ accounts = {}
    /\ users = <<>>
    /\ posts = <<>>
    /\ likes = {}
    /\ comments = <<>>
    /\ made = 0
    /\ ops = 0
    /\ call = [s \in Sess |-> Idle]
    /\ last = Step("init", TRUE, 0, 0, 0, <<>>)
    /\ prev = NoStep
    /\ storage = {}
    /\ postsSlice = PostsInitialState
    /\ authSlice = AuthInitialState

\* ------------------------------------------------------- register / login
InCall(s, op, pc) == call[s].op = op /\ call[s].pc = pc

Goto(s, op, pc, u) ==
    call' = [call EXCEPT ![s] = Locals(op, pc, u, 0, 0, <<>>, 0)]

Return(s) == call' = [call EXCEPT ![s] = Idle]

\* issuing a mutating call uses up the run's budget
Issue == ops < MaxUserOps /\ ops' = ops + 1

IssuePost == ops < MaxPostOps /\ ops' = ops + 1

\* a registerUser that stores the three lists, empty
RegisteredProfileWithLists(uid) == UserDoc(uid, ListFields, <<>>, <<>>, <<>>)

\* the profile registerUser stores: id, username, email, createdAt only
RegisteredProfile(uid) == UserDoc(uid, {}, <<>>, <<>>, <<>>)

\* the profile createUserProfile stores: userData plus three empty lists
SynthesizedProfile(uid) == UserDoc(uid, ListFields, <<>>, <<>>, <<>>)

\* registerUser: auth.createUserWithEmailAndPassword; a duplicate is rejected
RegisterCreateAccount(s, u) ==
    /\ call[s] = Idle
    /\ Issue
    /\ IF u \in accounts
       THEN /\ UNCHANGED <<accounts, call, storage, slices>>
            /\ Record("register.rejected", FALSE, 0, 0, 0, <<>>)
       ELSE /\ accounts' = accounts \cup {u}
            /\ Goto(s, "register", "setDoc", u)
            /\ Record("register.createAccount", TRUE, u, 0, 0, <<>>)
    /\ UNCHANGED <<users, postStore, storage, slices>>

\* registerUser: updateProfile, then users/{uid}.set(...); either may throw
RegisterSetDoc(s) ==
    /\ InCall(s, "register", "setDoc")
    /\ \E up \in BOOLEAN :
        IF up
        THEN /\ users' = SetDoc(users, call[s].u, RegisteredProfile(call[s].u))
             /\ Goto(s, "register", "getProfile", call[s].u)
             /\ Record("register.setDoc", TRUE, call[s].u, 0, 0, <<>>)
        ELSE /\ UNCHANGED users
             /\ Return(s)
             /\ Record("register.rejected", FALSE, 0, 0, 0, <<>>)
    /\ UNCHANGED <<accounts, ops, postStore, storage, slices>>

\* register thunk: getUserProfile(uid), then fulfilled with its result
RegisterGetProfile(s) ==
    /\ InCall(s, "register", "getProfile")
    /\ \E up \in BOOLEAN :
        IF up
        THEN Record("register.fulfilled", TRUE, call[s].u, 0, 0, <<>>)
        ELSE Record("register.rejected", FALSE, 0, 0, 0, <<>>)
    /\ Return(s)
    /\ UNCHANGED <<accounts, users, ops, postStore, storage, slices>>

\* loginUser: auth.signInWithEmailAndPassword; unknown account is rejected
LoginSignIn(s, u) ==
    /\ call[s] = Idle
    /\ Issue
    /\ IF u \in accounts
       THEN /\ Goto(s, "login", "getProfile", u)
            /\ Record("login.signIn", TRUE, 0, 0, 0, <<>>)
       ELSE /\ UNCHANGED call
            /\ Record("login.rejected", FALSE, 0, 0, 0, <<>>)
    /\ UNCHANGED <<accounts, users, postStore, storage, slices>>

\* login thunk: getUserProfile(uid); fulfilled at once when the profile exists
LoginGetProfile(s) ==
    /\ InCall(s, "login", "getProfile")
    /\ \E up \in BOOLEAN :
        IF ~up
        THEN /\ Return(s)
             /\ Record("login.rejected", FALSE, 0, 0, 0, <<>>)
        ELSE IF call[s].u \in DOMAIN users
        THEN /\ Return(s)
             /\ Record("login.fulfilled", TRUE, call[s].u, 0, 0, <<>>)
        ELSE /\ Goto(s, "login", "createProfile", call[s].u)
             /\ Record("login.getProfile", TRUE, 0, 0, 0, <<>>)
    /\ UNCHANGED <<accounts, users, ops, postStore, storage, slices>>

\* login thunk, profile was missing: createUserProfile(uid, newUserProfile)
LoginCreateProfile(s) ==
    /\ InCall(s, "login", "createProfile")
    /\ \E up \in BOOLEAN :
        IF up
        THEN /\ users' = SetDoc(users, call[s].u, SynthesizedProfile(call[s].u))
             /\ Record("login.fulfilled", TRUE, call[s].u, 0, 1, <<>>)
        ELSE /\ UNCHANGED users
             /\ Record("login.rejected", FALSE, 0, 0, 0, <<>>)
    /\ Return(s)
    /\ UNCHANGED <<accounts, ops, postStore, storage, slices>>

\* ------------------------------------------------------------ follow graph
\* a followUser that records the wrong id on the target side
FollowWritesSwapped(cur, target) ==
    << ArrayWrite(cur, "following", "union", target),
       ArrayWrite(target, "followers", "union", target) >>

FollowWrites(cur, target) ==
    << ArrayWrite(cur, "following", "union", target),
       ArrayWrite(target, "followers", "union", cur) >>

UnfollowWrites(cur, target) ==
    << ArrayWrite(cur, "following", "remove", target),
       ArrayWrite(target, "followers", "remove", cur) >>

FollowUser(cur, target) ==
    \E up \in BOOLEAN :
        /\ Issue
        /\ users' = UserBatchCommit(users, FollowWrites(cur, target), up)
        /\ Record("followUser",
                  UserBatchOk(users, FollowWrites(cur, target), up),
                  cur, target, IF up THEN 1 ELSE 0, <<>>)
        /\ UNCHANGED <<accounts, call, postStore, storage, slices>>

UnfollowUser(cur, target) ==
    \E up \in BOOLEAN :
        /\ Issue
        /\ users' = UserBatchCommit(users, UnfollowWrites(cur, target), up)
        /\ Record("unfollowUser",
                  UserBatchOk(users, UnfollowWrites(cur, target), up),
                  cur, target, IF up THEN 1 ELSE 0, <<>>)
        /\ UNCHANGED <<accounts, call, postStore, storage, slices>>

NextFollow ==
    \/ \E s \in Sess, u \in Uid : RegisterCreateAccount(s, u)
    \/ \E s \in Sess : RegisterSetDoc(s)
    \/ \E s \in Sess : RegisterGetProfile(s)
    \/ \E s \in Sess, u \in Uid : LoginSignIn(s, u)
    \/ \E s \in Sess : LoginGetProfile(s)
    \/ \E s \in Sess : LoginCreateProfile(s)
    \/ \E a, b \in Uid : FollowUser(a, b)
    \/ \E a, b \in Uid : UnfollowUser(a, b)

SpecFollow == Init /\ [][NextFollow]_vars
\* ------------------------------------------------------------------ posts
\* what a caller may pass for isOriginalRecipe / connectedPosts: the create
\* screen's original, the create screen's remake, and neither field
\* (likes / comments are values the caller's object carries for the two
\* counters, undef the fields it carries with value undefined)
ScreenOriginal ==
    [isOrig |-> "true", hasConn |-> TRUE, likes |-> 0, comments |-> 0,
     undef |-> {"cookingTime", "location"}]
ScreenRemake ==
    [isOrig |-> "false", hasConn |-> TRUE, likes |-> 0, comments |-> 0,
     undef |-> {"cookingTime", "location"}]
BareMeta ==
    [isOrig |-> "absent", hasConn |-> FALSE, likes |-> 0, comments |-> 0,
     undef |-> {}]

PostMetas == {ScreenOriginal, ScreenRemake, BareMeta}

\* the download URL of no image: photoURLs[0] of an empty list
NoURL == << 0, 0 >>

\* createPost's postData with the counters taken from the caller's object
PostDataCallerCounts(u, meta, urls) ==
    [userId |-> u, likes |-> meta.likes, comments |-> meta.comments,
     isOrig |-> meta.isOrig, orig |-> 0, hasConn |-> meta.hasConn,
     conn |-> <<>>,
     photoURL |-> IF urls = << >> THEN NoURL ELSE urls[1],
     photoURLs |-> urls,
     undef |-> (meta.undef \ {"photoURL"})
                 \cup (IF urls = << >> THEN {"photoURL"} ELSE {})]

\* createPost's postData: {...post, photoURL: photoURLs[0], photoURLs,
\* likes: 0, comments: 0, createdAt}; no originalRecipeId
PostData(u, meta, urls) ==
    [userId |-> u, likes |-> 0, comments |-> 0,
     isOrig |-> meta.isOrig, orig |-> 0, hasConn |-> meta.hasConn,
     conn |-> <<>>,
     photoURL |-> IF urls = << >> THEN NoURL ELSE urls[1],
     photoURLs |-> urls,
     undef |-> (meta.undef \ {"photoURL"})
                 \cup (IF urls = << >> THEN {"photoURL"} ELSE {})]

\* a createPost that writes postData as it is
CleanPostDataKeepAll(d) == d

\* cleanPostData: the entries of postData whose value is not undefined
CleanPostData(d) == [d EXCEPT !.undef = {}]

\* the document createPost writes for an empty image list
PostDoc(u, meta) == CleanPostData(PostData(u, meta, << >>))

\* one write of a batch on posts and likes
PostWrite(kind, doc, user, by, val) ==
    [kind |-> kind, doc |-> doc, user |-> user, by |-> by, val |-> val]

\* batch.update(postRef, {likes: increment(by)})
IncrLikes(p, by)  == PostWrite("incr", p, 0, by, <<>>)
\* batch.set(likeRef, {...}) and batch.delete(likeRef), key `${p}_${u}`
SetLike(p, u)     == PostWrite("setLike", p, u, 0, <<>>)
DeleteLike(p, u)  == PostWrite("deleteLike", p, u, 0, <<>>)
\* batch.update(originalPostRef, {connectedPosts: list})
SetConnected(p, list) == PostWrite("conn", p, 0, 0, list)
\* batch.update(newPostRef, {originalRecipeId, isOriginalRecipe: false})
SetOriginal(p, original) == PostWrite("link", p, 0, original, <<>>)

\* batch.update needs its document; batch.set and batch.delete do not
NeedsDoc(w) == w.kind \in {"incr", "conn", "link"}

PostState(ps, lk) == [posts |-> ps, likes |-> lk]

ApplyPostWrite(st, w) ==
    CASE w.kind = "incr" ->
           [st EXCEPT !.posts[w.doc].likes = @ + w.by]
      [] w.kind = "setLike" ->
           [st EXCEPT !.likes = @ \cup {<<w.doc, w.user>>}]
      [] w.kind = "deleteLike" ->
           [st EXCEPT !.likes = @ \ {<<w.doc, w.user>>}]
      [] w.kind = "conn" ->
           [st EXCEPT !.posts[w.doc].conn = w.val,
                      !.posts[w.doc].hasConn = TRUE]
      [] w.kind = "link" ->
           [st EXCEPT !.posts[w.doc].orig = w.by,
                      !.posts[w.doc].isOrig = "false"]

RECURSIVE ApplyPostWrites(_, _)
ApplyPostWrites(st, ws) ==
    IF ws = <<>> THEN st
    ELSE ApplyPostWrites(ApplyPostWrite(st, Head(ws)), Tail(ws))

PostBatchOk(ps, ws, up) ==
    up /\ \A i \in 1..Len(ws) : NeedsDoc(ws[i]) => ws[i].doc \in DOMAIN ps

\* a broken commit that applies every write it can
PostBatchCommitPartial(st, ws, up) ==
    IF ~up THEN st
    ELSE ApplyPostWrites(st, SelectSeq(ws,
             LAMBDA w : NeedsDoc(w) => w.doc \in DOMAIN st.posts))

PostBatchCommit(st, ws, up) ==
    IF PostBatchOk(st.posts, ws, up) THEN ApplyPostWrites(st, ws) ELSE st

Likes(ps, p) == IF p \in DOMAIN ps THEN ps[p].likes ELSE 0

\* the post ids a caller can pass
PostArg == (1..made) \cup {GhostPost}

\* createPost with an empty image list: needs auth.currentUser, the upload
\* loop has no iteration, then posts.add
CreatePost(u, meta) ==
    \E authed, up \in BOOLEAN :
        /\ IssuePost
        /\ made < NumPosts
        /\ IF authed /\ up
           THEN /\ posts' = SetDoc(posts, made + 1, PostDoc(u, meta))
                /\ made' = made + 1
                /\ Record("createPost", TRUE, made + 1, u, 0, <<>>)
           ELSE /\ UNCHANGED <<posts, made>>
                /\ Record("createPost", FALSE, 0, 0, 0, <<>>)
        /\ UNCHANGED <<userStore, likes, comments, call, storage, slices>>

\* deletePost: posts/{id}.delete(), which also resolves for a missing document
DeletePost(p) ==
    \E up \in BOOLEAN :
        /\ IssuePost
        /\ posts' = IF up THEN [x \in (DOMAIN posts) \ {p} |-> posts[x]]
                    ELSE posts
        /\ Record("deletePost", up, p, 0, 0, <<>>)
        /\ UNCHANGED <<userStore, likes, comments, made, call, storage, slices>>

\* ------------------------------------------------------------------ likes
\* a likePost that leaves the counter alone
LikeWritesNoCount(p, u) == << IncrLikes(p, 0), SetLike(p, u) >>

\* a likePost that counts only the first like of a user
LikeWritesOnce(p, u) ==
    IF <<p, u>> \in likes THEN << IncrLikes(p, 0), SetLike(p, u) >>
    ELSE << IncrLikes(p, 1), SetLike(p, u) >>

LikeWrites(p, u) == << IncrLikes(p, 1), SetLike(p, u) >>

UnlikeWrites(p, u) == << IncrLikes(p, -1), DeleteLike(p, u) >>

\* likePost: one batch of likes + 1 and likes/{p_u}.set; pre is likes before
LikePost(p, u) ==
    \E up \in BOOLEAN :
        LET st == PostBatchCommit(PostState(posts, likes), LikeWrites(p, u), up)
        IN  /\ IssuePost
            /\ posts' = st.posts
            /\ likes' = st.likes
            /\ Record("likePost", PostBatchOk(posts, LikeWrites(p, u), up),
                      p, u, Likes(posts, p), <<>>)
            /\ UNCHANGED <<userStore, comments, made, call, storage, slices>>

\* unlikePost: one batch of likes - 1 and likes/{p_u}.delete
UnlikePost(p, u) ==
    \E up \in BOOLEAN :
        LET st == PostBatchCommit(PostState(posts, likes), UnlikeWrites(p, u), up)
        IN  /\ IssuePost
            /\ posts' = st.posts
            /\ likes' = st.likes
            /\ Record("unlikePost", PostBatchOk(posts, UnlikeWrites(p, u), up),
                      p, u, Likes(posts, p), <<>>)
            /\ UNCHANGED <<userStore, comments, made, call, storage, slices>>

\* checkIfUserLikedPost: likes/{p_u}.get().exists, false when the read throws;
\* ok is the value returned, pre is 1 when the read was served
CheckIfUserLikedPost(p, u) ==
    \E up \in BOOLEAN :
        /\ Record("checkIfUserLikedPost", up /\ <<p, u>> \in likes, p, u,
                  IF up THEN 1 ELSE 0, <<>>)
        /\ UNCHANGED <<userStore, postStore, ops, call, storage, slices>>

\* --------------------------------------------------------------- comments
\* ids comments.add can hand out (auto-ids: their order is unrelated to the
\* order of creation)
CommentId == 1..MaxPostOps

\* the latest createdAt the server has resolved for a comment so far
LatestStamp(cs) ==
    IF cs = << >> THEN 0
    ELSE CHOOSE t \in {cs[i].createdAt : i \in 1..Len(cs)} :
             \A i \in 1..Len(cs) : cs[i].createdAt <= t

\* createdAt the server can resolve for the next comment, in milliseconds:
\* the same millisecond as the latest comment, or a later one
NextStamps(cs) ==
    IF cs = << >> THEN {1} ELSE {LatestStamp(cs), LatestStamp(cs) + 1}

CommentDoc(id, p, u, at) ==
    [id |-> id, postId |-> p, userId |-> u, createdAt |-> at]

\* addComment: comments.add(cleanCommentData)
AddCommentAdd(s, p, u) ==
    /\ call[s] = Idle
    /\ IssuePost
    /\ \E up \in BOOLEAN :
        IF up
        THEN /\ \E id \in CommentId \ {comments[i].id : i \in 1..Len(comments)},
                   at \in NextStamps(comments) :
                   comments' = Append(comments, CommentDoc(id, p, u, at))
             /\ call' = [call EXCEPT ![s] =
                           Locals("addComment", "readPost", u, p, 0, <<>>, 0)]
             /\ Record("addComment.add", TRUE, p, u, 0, <<>>)
        ELSE /\ UNCHANGED <<comments, call>>
             /\ Record("addComment.thrown", FALSE, 0, 0, 0, <<>>)
    /\ UNCHANGED <<userStore, posts, likes, made, storage, slices>>

\* an addComment that goes on to the counter update for a missing post
AddCommentReadPostNoCheck(s) ==
    /\ InCall(s, "addComment", "readPost")
    /\ \E up \in BOOLEAN :
        IF ~up
        THEN /\ Return(s)
             /\ Record("addComment.thrown", FALSE, 0, 0, 0, <<>>)
        ELSE /\ call' = [call EXCEPT ![s].pc = "update",
                                     ![s].n = IF call[s].p \in DOMAIN posts
                                              THEN posts[call[s].p].comments
                                              ELSE 0]
             /\ Record("addComment.readPost", TRUE, 0, 0, 0, <<>>)
    /\ UNCHANGED <<userStore, postStore, ops, storage, slices>>

\* addComment: posts/{postId}.get(); a missing post is logged and skipped
AddCommentReadPost(s) ==
    /\ InCall(s, "addComment", "readPost")
    /\ \E up \in BOOLEAN :
        IF ~up
        THEN /\ Return(s)
             /\ Record("addComment.thrown", FALSE, 0, 0, 0, <<>>)
        ELSE IF call[s].p \in DOMAIN posts
        THEN /\ call' = [call EXCEPT ![s].pc = "update",
                                     ![s].n = posts[call[s].p].comments]
             /\ Record("addComment.readPost", TRUE, 0, 0, 0, <<>>)
        ELSE /\ Return(s)
             /\ Record("addComment.returned", TRUE, call[s].p, call[s].u, 0, <<>>)
    /\ UNCHANGED <<userStore, postStore, ops, storage, slices>>

\* an addComment whose update is an atomic increment of the stored counter
AddCommentUpdateIncrement(s) ==
    /\ InCall(s, "addComment", "update")
    /\ \E up \in BOOLEAN :
        IF up /\ call[s].p \in DOMAIN posts
        THEN /\ posts' = [posts EXCEPT ![call[s].p].comments = @ + 1]
             /\ Record("addComment.returned", TRUE, call[s].p, call[s].u,
                       call[s].n, <<>>)
        ELSE /\ UNCHANGED posts
             /\ Record("addComment.thrown", FALSE, 0, 0, 0, <<>>)
    /\ Return(s)
    /\ UNCHANGED <<userStore, likes, comments, made, ops, storage, slices>>

\* addComment: posts/{postId}.update({comments: (post.comments || 0) + 1})
AddCommentUpdate(s) ==
    /\ InCall(s, "addComment", "update")
    /\ \E up \in BOOLEAN :
        IF up /\ call[s].p \in DOMAIN posts
        THEN /\ posts' = [posts EXCEPT ![call[s].p].comments = call[s].n + 1]
             /\ Record("addComment.returned", TRUE, call[s].p, call[s].u,
                       call[s].n, <<>>)
        ELSE /\ UNCHANGED posts
             /\ Record("addComment.thrown", FALSE, 0, 0, 0, <<>>)
    /\ Return(s)
    /\ UNCHANGED <<userStore, likes, comments, made, ops, storage, slices>>

NextLikes ==
    \/ \E u \in Uid : CreatePost(u, ScreenOriginal)
    \/ \E p \in PostArg, u \in Uid : LikePost(p, u)
    \/ \E p \in PostArg, u \in Uid : UnlikePost(p, u)
    \/ \E p \in PostArg, u \in Uid : CheckIfUserLikedPost(p, u)
    \/ \E s \in Sess, p \in PostArg, u \in Uid : AddCommentAdd(s, p, u)
    \/ \E s \in Sess : AddCommentReadPost(s)
    \/ \E s \in Sess : AddCommentUpdate(s)

SpecLikes == Init /\ [][NextLikes]_vars

\* ------------------------------------------------------- recipe connection
\* getPostById(...)?.connectedPosts || []
Connected(ps, p) == IF p \in DOMAIN ps THEN ps[p].conn ELSE <<>>

\* a connect batch that rewrites the list it read without the new post
ConnectWritesNoAppend(original, new, existed, snap) ==
    (IF existed THEN << SetConnected(original, snap) >> ELSE << >>)
        \o << SetOriginal(new, original) >>

\* connectPostToRecipe's batch: the list as read plus the new id, when the
\* original existed at the read; then the link fields of the new post
ConnectWrites(original, new, existed, snap) ==
    (IF existed THEN << SetConnected(original, Append(snap, new)) >> ELSE << >>)
        \o << SetOriginal(new, original) >>

\* connectPostToRecipe: originalPostRef.get(), called by `op`
ConnectRead(s, op, original, new) ==
    \E up \in BOOLEAN :
        IF up
        THEN /\ call' = [call EXCEPT ![s] =
                   Locals(op, "connectCommit", call[s].u, original, new,
                          Connected(posts, original),
                          IF original \in DOMAIN posts THEN 1 ELSE 0)]
             /\ Record("connect.read", TRUE, 0, 0, 0, <<>>)
        ELSE /\ Return(s)
             /\ Record(op \o ".thrown", FALSE, 0, 0, 0, <<>>)

\* connectPostToRecipe called on its own
ConnectPostToRecipe(s, original, new) ==
    /\ call[s] = Idle
    /\ IssuePost
    /\ ConnectRead(s, "connectPostToRecipe", original, new)
    /\ UNCHANGED <<userStore, postStore, storage, slices>>

\* a commit whose failure inside createConnectedPost deletes the new post
ConnectCommitRollback(s) ==
    /\ call[s].pc = "connectCommit"
    /\ \E up \in BOOLEAN :
        LET c  == call[s]
            ws == ConnectWrites(c.p, c.q, c.n = 1, c.snap)
            st == PostBatchCommit(PostState(posts, likes), ws, up)
        IN  IF PostBatchOk(posts, ws, up)
            THEN /\ posts' = st.posts
                 /\ Record("connect.commit", TRUE, c.p, c.q, c.n, c.snap)
                 /\ IF c.op = "createConnectedPost"
                    THEN call' = [call EXCEPT ![s].pc = "finalRead"]
                    ELSE Return(s)
            ELSE /\ posts' = IF c.op = "createConnectedPost"
                             THEN [x \in (DOMAIN posts) \ {c.q} |-> posts[x]]
                             ELSE posts
                 /\ Record(c.op \o ".thrown", FALSE, 0, 0, 0, <<>>)
                 /\ Return(s)
    /\ UNCHANGED <<userStore, likes, comments, made, ops, storage, slices>>

\* connectPostToRecipe: batch.commit(); pre is 1 when the original was found
ConnectCommit(s) ==
    /\ call[s].pc = "connectCommit"
    /\ \E up \in BOOLEAN :
        LET c  == call[s]
            ws == ConnectWrites(c.p, c.q, c.n = 1, c.snap)
            st == PostBatchCommit(PostState(posts, likes), ws, up)
        IN  /\ posts' = st.posts
            /\ IF PostBatchOk(posts, ws, up)
               THEN /\ Record("connect.commit", TRUE, c.p, c.q, c.n, c.snap)
                    /\ IF c.op = "createConnectedPost"
                       THEN call' = [call EXCEPT ![s].pc = "finalRead"]
                       ELSE Return(s)
               ELSE /\ Record(c.op \o ".thrown", FALSE, 0, 0, 0, <<>>)
                    /\ Return(s)
    /\ UNCHANGED <<userStore, likes, comments, made, ops, storage, slices>>

\* createConnectedPost: createPost(post, images)
CreateConnectedPost(s, u, meta, original) ==
    /\ call[s] = Idle
    /\ IssuePost
    /\ made < NumPosts
    /\ \E authed, up \in BOOLEAN :
        IF authed /\ up
        THEN /\ posts' = SetDoc(posts, made + 1, PostDoc(u, meta))
             /\ made' = made + 1
             /\ call' = [call EXCEPT ![s] =
                   Locals("createConnectedPost", "connectRead", u, original,
                          made + 1, <<>>, 0)]
             /\ Record("createPost", TRUE, made + 1, u, 0, <<>>)
        ELSE /\ UNCHANGED <<posts, made, call>>
             /\ Record("createConnectedPost.thrown", FALSE, 0, 0, 0, <<>>)
    /\ UNCHANGED <<userStore, likes, comments, storage, slices>>

\* createConnectedPost: connectPostToRecipe(originalRecipeId, newPost.id)
CreateConnectedRead(s) ==
    /\ InCall(s, "createConnectedPost", "connectRead")
    /\ ConnectRead(s, "createConnectedPost", call[s].p, call[s].q)
    /\ UNCHANGED <<userStore, postStore, ops, storage, slices>>

\* createConnectedPost: return await getPostById(newPost.id); pre is 1 when
\* the post was found, 0 when null is returned
CreateConnectedReturn(s) ==
    /\ InCall(s, "createConnectedPost", "finalRead")
    /\ \E up \in BOOLEAN :
        IF up
        THEN Record("createConnectedPost.returned", TRUE, call[s].p, call[s].q,
                    IF call[s].q \in DOMAIN posts THEN 1 ELSE 0, <<>>)
        ELSE Record("createConnectedPost.thrown", FALSE, 0, 0, 0, <<>>)
    /\ Return(s)
    /\ UNCHANGED <<userStore, postStore, ops, storage, slices>>

\* a getConnectedPosts that keeps the null of a post it did not find
KeepFoundUnfiltered(acc, id, found) == Append(acc, IF found THEN id ELSE 0)

\* connectedPosts.filter(post => post !== null), one read at a time
KeepFound(acc, id, found) == IF found THEN Append(acc, id) ELSE acc

\* a result with the original last
ConnectedResultOriginalLast(original, acc) == acc \o << original >>

\* return [originalPost, ...validConnectedPosts], as post ids
ConnectedResult(original, acc) == << original >> \o acc

\* getConnectedPosts: getPostById(originalRecipeId); throws when it is missing;
\* returns at once when the original lists no connected post
GetConnectedReadOriginal(s, original) ==
    /\ call[s] = Idle
    /\ \E up \in BOOLEAN :
        IF up /\ original \in DOMAIN posts
        THEN IF Connected(posts, original) = << >>
             THEN /\ UNCHANGED call
                  /\ Record("getConnectedPosts", TRUE, original, 0, 0,
                            ConnectedResult(original, << >>))
             ELSE /\ call' = [call EXCEPT ![s] =
                        Locals("getConnectedPosts", "readConnected", 0,
                               original, 0, Connected(posts, original), 1)]
                  /\ Record("getConnectedPosts.readOriginal", TRUE, 0, 0, 0, <<>>)
        ELSE /\ UNCHANGED call
             /\ Record("getConnectedPosts.thrown", FALSE, 0, 0, 0, <<>>)
    /\ UNCHANGED <<userStore, postStore, ops, storage, slices>>

\* getConnectedPosts: the getPostById of connectedPostIds[n]; after the last
\* one the nulls are filtered out and the list is returned
GetConnectedReadNext(s) ==
    /\ InCall(s, "getConnectedPosts", "readConnected")
    /\ \E up \in BOOLEAN :
        LET c   == call[s]
            id  == c.snap[c.n]
            acc == KeepFound(c.acc, id, id \in DOMAIN posts)
        IN  IF ~up
            THEN /\ Return(s)
                 /\ Record("getConnectedPosts.thrown", FALSE, 0, 0, 0, <<>>)
            ELSE IF c.n < Len(c.snap)
            THEN /\ call' = [call EXCEPT ![s].n = c.n + 1, ![s].acc = acc]
                 /\ Record("getConnectedPosts.readConnected", TRUE, 0, 0, 0, <<>>)
            ELSE /\ Return(s)
                 /\ Record("getConnectedPosts", TRUE, c.p, 0, 0,
                           ConnectedResult(c.p, acc))
    /\ UNCHANGED <<userStore, postStore, ops, storage, slices>>

\* the recipe steps never read a post's author: one author is enough here
RecipeAuthors == {u \in Uid : \A v \in Uid : u <= v}

NextRecipe ==
    \/ \E u \in RecipeAuthors, meta \in PostMetas \ {ScreenRemake} :
          CreatePost(u, meta)
    \/ \E p \in PostArg : DeletePost(p)
    \/ \E s \in Sess, o, n \in PostArg : ConnectPostToRecipe(s, o, n)
    \/ \E s \in Sess : ConnectCommit(s)
    \/ \E s \in Sess, u \in RecipeAuthors, o \in PostArg :
          CreateConnectedPost(s, u, ScreenRemake, o)
    \/ \E s \in Sess : CreateConnectedRead(s)
    \/ \E s \in Sess : CreateConnectedReturn(s)
    \/ \E s \in Sess, o \in PostArg : GetConnectedReadOriginal(s, o)
    \/ \E s \in Sess : GetConnectedReadNext(s)

SpecRecipe == Init /\ [][NextRecipe]_vars

\* ------------------------------------------------------------------ claims
IsFollowing(us, a, b) == b \in Range(Following(us, a))
IsFollower(us, b, a)  == a \in Range(Followers(us, b))

\* C1: after a successful followUser(A,B), B is in users[A].following and A
\* is in users[B].followers; after a successful unfollowUser(A,B) that
\* directly follows it, neither holds.
C1_FollowThenUnfollow ==
    /\ (last.op = "followUser" /\ last.ok) =>
          /\ IsFollowing(users, last.a, last.b)
          /\ IsFollower(users, last.b, last.a)
    /\ (last.op = "unfollowUser" /\ last.ok /\ prev.op = "followUser"
        /\ prev.a = last.a /\ prev.b = last.b) =>
          /\ ~IsFollowing(users, last.a, last.b)
          /\ ~IsFollower(users, last.b, last.a)

C1_Witness ==
    /\ last.op = "unfollowUser" /\ last.ok
    /\ prev.op = "followUser" /\ prev.a = last.a /\ prev.b = last.b
    /\ last.a # last.b

\* C2: in every reachable state the follow graph is mirrored: B is in
\* users[A].following exactly when A is in users[B].followers.
C2_Mirrored ==
    \A a, b \in Uid : IsFollowing(users, a, b) <=> IsFollower(users, b, a)

\* C3: a followUser / unfollowUser whose batch fails throws and changes no
\* user document; a batch that changes anything succeeded and leaves both
\* sides of the edge equal.
C3_FollowBatchAllOrNothing ==
    [][ last'.op \in {"followUser", "unfollowUser"} =>
          /\ (~last'.ok => users' = users)
          /\ (users' # users =>
                /\ last'.ok
                /\ IsFollowing(users', last'.a, last'.b)
                     <=> IsFollower(users', last'.b, last'.a)) ]_vars

C3_Witness ==
    /\ last.op = "followUser" /\ ~last.ok
    /\ last.a \in DOMAIN users
    /\ last.b \notin DOMAIN users
SamePair(x, y) == x.a = y.a /\ x.b = y.b

EdgeCount(lk, p) == Cardinality({e \in lk : e[1] = p})

\* C4 as stated: after a successful likePost(P,U) the edge exists and likes
\* is 1 greater than before, a checkIfUserLikedPost(P,U) that follows returns
\* true; after the paired unlikePost(P,U) the check returns false and likes
\* is back to its value before the likePost.
C4_LikeThenCheckTrue ==
    /\ (last.op = "likePost" /\ last.ok) =>
          /\ <<last.a, last.b>> \in likes
          /\ Likes(posts, last.a) = last.pre + 1
    /\ (last.op = "checkIfUserLikedPost" /\ prev.op = "likePost"
        /\ SamePair(prev, last)) => last.ok
    /\ (last.op = "unlikePost" /\ last.ok /\ prev.op = "likePost"
        /\ SamePair(prev, last)) =>
          /\ <<last.a, last.b>> \notin likes
          /\ Likes(posts, last.a) = prev.pre
    /\ (last.op = "checkIfUserLikedPost" /\ <<last.a, last.b>> \notin likes)
          => ~last.ok

\* C4 amended: the same, except that the check after likePost returns true
\* exactly when its read of the like document is served; a read that throws
\* makes it return false.
C4_LikeUnlikeRoundTrip ==
    /\ (last.op = "likePost" /\ last.ok) =>
          /\ <<last.a, last.b>> \in likes
          /\ Likes(posts, last.a) = last.pre + 1
    /\ (last.op = "checkIfUserLikedPost" /\ prev.op = "likePost"
        /\ SamePair(prev, last)) => (last.ok <=> last.pre = 1)
    /\ (last.op = "unlikePost" /\ last.ok /\ prev.op = "likePost"
        /\ SamePair(prev, last)) =>
          /\ <<last.a, last.b>> \notin likes
          /\ Likes(posts, last.a) = prev.pre
    /\ (last.op = "checkIfUserLikedPost" /\ <<last.a, last.b>> \notin likes)
          => ~last.ok

C4_Witness ==
    /\ last.op = "unlikePost" /\ last.ok
    /\ prev.op = "likePost" /\ SamePair(prev, last)
    /\ Likes(posts, last.a) = prev.pre

C7_LikeBatchAtomic ==
    [][ last'.op \in {"likePost", "unlikePost"} =>
          LET p == last'.a
              e == <<last'.a, last'.b>>
              d == IF last'.op = "likePost" THEN 1 ELSE -1
          IN  /\ ~last'.ok => (posts' = posts /\ likes' = likes)
              /\ last'.ok =>
                   /\ p \in DOMAIN posts
                   /\ posts' = [posts EXCEPT ![p].likes = @ + d]
                   /\ likes' = IF d = 1 THEN likes \cup {e} ELSE likes \ {e} ]_vars

C7_Witness ==
    /\ last.op = "likePost" /\ ~last.ok
    /\ last.a \notin DOMAIN posts
    /\ made >= 1

\* C8: when createConnectedPost returns, the new post has
\* originalRecipeId = originalId and isOriginalRecipe = false, and
\* posts[originalId].connectedPosts contains the new post's id, for every
\* originalId and under concurrent connects.
C8_LinkedAtReturn ==
    (last.op = "createConnectedPost.returned" /\ last.ok) =>
        LET o == last.a
            n == last.b
        IN  /\ n \in DOMAIN posts
            /\ posts[n].orig = o
            /\ posts[n].isOrig = "false"
            /\ o \in DOMAIN posts
            /\ n \in Range(posts[o].conn)

\* C9: a successful getConnectedPosts(originalId) returns a list whose first
\* element is the original and in which no post id occurs twice.
C9_OriginalFirstNoDup ==
    (last.op = "getConnectedPosts" /\ last.ok) =>
        /\ Head(last.out) = last.a
        /\ NoDup(last.out)

\* C10: getConnectedPosts returns the original first; each id of the
\* connectedPosts list it read is kept exactly when the post exists at the
\* moment it is read, in list order; a missing post is dropped and the call
\* goes on; every listed post still stored at the return is in the result.
\* The order is stated as the list restricted to the kept ids when the list
\* has no repeated id, and step by step (append or skip) in every case.
C10_ConnectedPostsResult ==
    [][ \A s \in Sess :
          LET c    == call[s]
              o    == c.p
              back == last'.op = "getConnectedPosts"
          IN  /\ (c = Idle /\ last'.op = "getConnectedPosts.readOriginal"
                  /\ call'[s] # c) =>
                    /\ call'[s].p \in DOMAIN posts
                    /\ call'[s].snap = posts[call'[s].p].conn
                    /\ call'[s].acc = << >>
                    /\ call'[s].n = 1
              /\ (c = Idle /\ back /\ call' = call) =>
                    /\ last'.a \in DOMAIN posts
                    /\ posts[last'.a].conn = << >>
                    /\ last'.out = << last'.a >>
              /\ (c.op = "getConnectedPosts" /\ call'[s] # c /\ last'.ok) =>
                    LET id    == c.snap[c.n]
                        found == IF back THEN Tail(last'.out) ELSE call'[s].acc
                    IN  /\ found = IF id \in DOMAIN posts
                                   THEN Append(c.acc, id) ELSE c.acc
                        /\ back <=> c.n = Len(c.snap)
                        /\ ~back => call'[s].n = c.n + 1 /\ call'[s].snap = c.snap
                        /\ back =>
                             /\ Head(last'.out) = o
                             /\ \A i \in 1..Len(c.snap) :
                                  c.snap[i] \in DOMAIN posts'
                                      => c.snap[i] \in Range(found)
                             /\ Range(found) \subseteq Range(c.snap)
                             /\ NoDup(c.snap) =>
                                  found = SelectSeq(c.snap,
                                             LAMBDA x : x \in Range(found)) ]_vars

C10_Witness ==
    /\ last.op = "getConnectedPosts" /\ last.ok
    /\ last.a \in DOMAIN posts
    /\ posts[last.a].conn # << >>
    /\ \E i \in 1..Len(posts[last.a].conn) :
          /\ posts[last.a].conn[i] \notin DOMAIN posts
          /\ posts[last.a].conn[i] \notin Range(last.out)

\* C11: every stored post has isOriginalRecipe = true exactly when it has no
\* originalRecipeId, in every reachable state, the states between
\* createConnectedPost's createPost and its connectPostToRecipe included.
C11_OriginalIffNoOriginalId ==
    \A p \in DOMAIN posts : (posts[p].isOrig = "true") <=> (posts[p].orig = 0)

\* comment documents stored for post p (what getCommentsForPost(p) lists)
CommentsOf(cs, p) == SelectSeq(cs, LAMBDA c : c.postId = p)

\* C12: once every addComment call has come back, each stored post's
\* comments counter equals the number of comment documents with its postId.
C12_CountEqualsDocs ==
    (\A s \in Sess : call[s] = Idle) =>
        \A p \in DOMAIN posts : posts[p].comments = Len(CommentsOf(comments, p))

\* ------------------------------------------------------- getCommentsForPost

\* where('postId', '==', p).orderBy('createdAt', 'desc'): the store orders by
\* createdAt descending and, among equal createdAt, by document id in the
\* direction of the orderBy
OrderedQuery(cs, p) ==
    SortSeq(CommentsOf(cs, p),
            LAMBDA x, y : \/ x.createdAt > y.createdAt
                          \/ x.createdAt = y.createdAt /\ x.id > y.id)

\* where('postId', '==', p) alone: the store's default order, by document id
UnorderedQuery(cs, p) ==
    SortSeq(CommentsOf(cs, p), LAMBDA x, y : x.id < y.id)

\* one step of comments.sort((a, b) => b.createdAt - a.createdAt), a stable
\* sort: c goes behind every element that does not sort after it
InsertByCreatedAtDesc(sorted, c) ==
    LET before == SelectSeq(sorted, LAMBDA x : x.createdAt >= c.createdAt)
        after  == SelectSeq(sorted, LAMBDA x : x.createdAt < c.createdAt)
    IN  before \o << c >> \o after

RECURSIVE SortByCreatedAtDesc(_)
SortByCreatedAtDesc(cs) ==
    IF cs = << >> THEN << >>
    ELSE InsertByCreatedAtDesc(SortByCreatedAtDesc(SubSeq(cs, 1, Len(cs) - 1)),
                               cs[Len(cs)])

\* the ids of the comments a call returns, in the order returned
CommentIds(docs) == [i \in 1..Len(docs) |-> docs[i].id]

\* docs.map(...) then comments.sort(...), on either query's snapshot
CommentsResult(snapshot) == CommentIds(SortByCreatedAtDesc(snapshot))

\* getCommentsForPost: the ordered query; when it fails (missing index, or
\* any other error) the fallback query is tried
GetCommentsOrdered(s, p) ==
    /\ call[s] = Idle
    /\ \E served \in BOOLEAN :
        IF served
        THEN /\ UNCHANGED call
             /\ Record("getCommentsForPost", TRUE, p, 1, 0,
                       CommentsResult(OrderedQuery(comments, p)))
        ELSE /\ call' = [call EXCEPT ![s] =
                   Locals("getCommentsForPost", "fallback", 0, p, 0, <<>>, 0)]
             /\ Record("getCommentsForPost.indexError", TRUE, 0, 0, 0, <<>>)
    /\ UNCHANGED <<userStore, postStore, ops, storage, slices>>

\* getCommentsForPost: the unordered fallback query
GetCommentsFallback(s) ==
    /\ InCall(s, "getCommentsForPost", "fallback")
    /\ \E up \in BOOLEAN :
        IF up
        THEN Record("getCommentsForPost", TRUE, call[s].p, 0, 0,
                    CommentsResult(UnorderedQuery(comments, call[s].p)))
        ELSE Record("getCommentsForPost.thrown", FALSE, 0, 0, 0, <<>>)
    /\ Return(s)
    /\ UNCHANGED <<userStore, postStore, ops, storage, slices>>

NextComments ==
    \/ \E u \in RecipeAuthors : CreatePost(u, ScreenOriginal)
    \/ \E s \in Sess, p \in PostArg, u \in Uid : AddCommentAdd(s, p, u)
    \/ \E s \in Sess : AddCommentReadPost(s)
    \/ \E s \in Sess : AddCommentUpdate(s)
    \/ \E s \in Sess, p \in PostArg : GetCommentsOrdered(s, p)
    \/ \E s \in Sess : GetCommentsFallback(s)

SpecComments == Init /\ [][NextComments]_vars

\* C13: on the same stored comments getCommentsForPost returns the same
\* sequence through the ordered query and through the fallback query: what a
\* call returned is what either path yields on the comments now stored.
C13_PathsAgree ==
    (last.op = "getCommentsForPost" /\ last.ok) =>
        /\ last.out = CommentsResult(OrderedQuery(comments, last.a))
        /\ last.out = CommentsResult(UnorderedQuery(comments, last.a))

\* ------------------------------------------------ createPost with images

MaxImages == 2     \* images passed to one createPost call

\* how createPost uploads an image: a file:// uri (read, then put raced with
\* a 60 s timer), or a data: url (putString; bare base64 is made a data: url
\* and uploaded by the same putString)
ImageKinds == {"file", "data"}

RECURSIVE SeqsUpTo(_, _)
SeqsUpTo(S, n) ==
    IF n = 0 THEN {<< >>}
    ELSE LET shorter == SeqsUpTo(S, n - 1)
         IN  shorter \cup {Append(q, x) : q \in shorter, x \in S}

\* the non-empty image lists a call is given
ImageLists == SeqsUpTo(ImageKinds, MaxImages) \ {<< >>}

\* a caller's object that carries counters of its own and an undefined field
UntypedMeta ==
    [isOrig |-> "true", hasConn |-> TRUE, likes |-> 5, comments |-> 7,
     undef |-> {"preparationTime"}]

CreateMetas == {ScreenOriginal, UntypedMeta}

\* storage.ref(`posts/${Date.now()}_${i}_${random}`) of image i of call k,
\* and the download URL of that reference
StorageRef(k, i) == << k, i >>

\* the locals of a createPost call: k its number, images, i the index of the
\* image at hand, photoURLs so far, post the caller's object
CreateLocals(pc, u, k, images, i, photoURLs, meta) ==
    [Locals("createPost", pc, u, k, 0, images, i)
        EXCEPT !.acc = photoURLs, !.meta = meta]

\* where the loop body starts for an image of this kind
FirstStep(kind) == IF kind = "file" THEN "read" ELSE "upload"

\* createPost up to the loop: auth.currentUser is checked, nothing is awaited
CreatePostBegin(s, u, meta, images) ==
    /\ call[s] = Idle
    /\ IssuePost
    /\ made < NumPosts
    /\ \E authed \in BOOLEAN :
        IF authed
        THEN /\ call' = [call EXCEPT ![s] =
                   CreateLocals(FirstStep(images[1]), u, ops + 1, images, 1,
                                << >>, meta)]
             /\ Record("createPost.begin", TRUE, 0, 0, 0, <<>>)
        ELSE /\ UNCHANGED call
             /\ Record("createPost.thrown", FALSE, 0, 0, 0, <<>>)
    /\ UNCHANGED <<userStore, postStore, storage, slices>>

\* file:// image: FileSystem.readAsStringAsync, fetch, response.blob
CreatePostRead(s) ==
    /\ InCall(s, "createPost", "read")
    /\ \E done \in BOOLEAN :
        IF done
        THEN /\ call' = [call EXCEPT ![s].pc = "upload"]
             /\ Record("createPost.read", TRUE, 0, 0, 0, <<>>)
        ELSE /\ Return(s)
             /\ Record("createPost.thrown", FALSE, call[s].p, call[s].n, 0, <<>>)
    /\ UNCHANGED <<userStore, postStore, ops, storage, slices>>

\* a createPost that deletes the blobs of its call when an upload fails
AfterUploadRollback(st, ref, outcome) ==
    IF outcome = "stored" THEN st \cup {ref}
    ELSE {r \in st : r[1] # ref[1]}

\* the blob store after an upload attempt on ref: nothing is ever deleted
AfterUpload(st, ref, outcome) ==
    IF outcome \in {"stored", "timeoutStored"} THEN st \cup {ref} ELSE st

\* the upload of the image at hand ends with `outcome`: storageRef.put(blob)
\* raced with the 60 s timer for a file:// image, storageRef.putString
\* otherwise. On the timeout the call throws while the put it started may
\* still complete.
UploadEnds(s, outcome) ==
    /\ InCall(s, "createPost", "upload")
    /\ LET c   == call[s]
           ref == StorageRef(c.p, c.n)
       IN   /\ outcome \in {"timeout", "timeoutStored"} => c.snap[c.n] = "file"
            /\ storage' = AfterUpload(storage, ref, outcome)
            /\ IF outcome = "stored"
               THEN /\ call' = [call EXCEPT ![s].pc = "url"]
                    /\ Record("createPost.upload", TRUE, 0, 0, 0, <<>>)
               ELSE /\ Return(s)
                    /\ Record("createPost.thrown", FALSE, c.p, c.n, 0, <<>>)
    /\ UNCHANGED <<userStore, postStore, ops, slices>>

\* the storage service settles the put / putString: stored, or an error
UploadSettles(s) == \E outcome \in {"stored", "failed"} : UploadEnds(s, outcome)

\* the 60 s timer of a file:// upload rejects first
UploadTimesOut(s) ==
    \E outcome \in {"timeout", "timeoutStored"} : UploadEnds(s, outcome)

CreatePostUpload(s) == UploadSettles(s) \/ UploadTimesOut(s)

\* storageRef.getDownloadURL() and photoURLs.push(photoURL); then the next
\* image, or the write of the post when this was the last one
CreatePostGetURL(s) ==
    /\ InCall(s, "createPost", "url")
    /\ LET c == call[s]
       IN  \E up \in BOOLEAN :
            IF up
            THEN /\ call' = [call EXCEPT ![s] =
                       IF c.n = Len(c.snap)
                       THEN [c EXCEPT !.pc = "add",
                                      !.acc = Append(c.acc, StorageRef(c.p, c.n))]
                       ELSE [c EXCEPT !.pc = FirstStep(c.snap[c.n + 1]),
                                      !.n = c.n + 1,
                                      !.acc = Append(c.acc, StorageRef(c.p, c.n))]]
                 /\ Record("createPost.url", TRUE, 0, 0, 0, <<>>)
            ELSE /\ Return(s)
                 /\ Record("createPost.thrown", FALSE, c.p, c.n, 0, <<>>)
    /\ UNCHANGED <<userStore, postStore, ops, storage, slices>>

\* db.collection('posts').add(cleanPostData) and the return
CreatePostAdd(s) ==
    /\ InCall(s, "createPost", "add")
    /\ made < NumPosts
    /\ LET c == call[s]
       IN  \E up \in BOOLEAN :
            IF up
            THEN /\ posts' = SetDoc(posts, made + 1,
                                    CleanPostData(PostData(c.u, c.meta, c.acc)))
                 /\ made' = made + 1
                 /\ Record("createPost", TRUE, made + 1, c.u, 0, <<>>)
            ELSE /\ UNCHANGED <<posts, made>>
                 /\ Record("createPost.thrown", FALSE, c.p, 0, 0, <<>>)
    /\ Return(s)
    /\ UNCHANGED <<userStore, likes, comments, ops, storage, slices>>

NextCreate ==
    \/ \E u \in RecipeAuthors, meta \in CreateMetas : CreatePost(u, meta)
    \/ \E s \in Sess, u \in RecipeAuthors, meta \in CreateMetas,
          images \in ImageLists : CreatePostBegin(s, u, meta, images)
    \/ \E s \in Sess : CreatePostRead(s)
    \/ \E s \in Sess : CreatePostUpload(s)
    \/ \E s \in Sess : CreatePostGetURL(s)
    \/ \E s \in Sess : CreatePostAdd(s)

SpecCreate == Init /\ [][NextCreate]_vars

\* C14: a successful createPost writes exactly one post document and changes
\* no other; its photoURLs holds the download URL of each input image's
\* upload, in input order; photoURL is photoURLs[0]; likes and comments are
\* 0 whatever the caller's object carried; no undefined-valued field is
\* written.
C14_CreatePostDocument ==
    [][ (last'.op = "createPost" /\ last'.ok) =>
          LET id == last'.a
              d  == posts'[id]
          IN  /\ id \notin DOMAIN posts
              /\ DOMAIN posts' = DOMAIN posts \cup {id}
              /\ \A p \in DOMAIN posts : posts'[p] = posts[p]
              /\ d.likes = 0 /\ d.comments = 0
              /\ d.undef = {}
              /\ d.photoURL = IF d.photoURLs = << >> THEN NoURL
                              ELSE d.photoURLs[1]
              /\ \A s \in Sess :
                    (call[s].op = "createPost" /\ call'[s] = Idle) =>
                        /\ Len(d.photoURLs) = Len(call[s].snap)
                        /\ \A i \in 1..Len(call[s].snap) :
                              /\ d.photoURLs[i] = StorageRef(call[s].p, i)
                              /\ d.photoURLs[i] \in storage
              /\ call' = call => d.photoURLs = << >> ]_vars

C14_Witness ==
    /\ last.op = "createPost" /\ last.ok
    /\ Len(posts[last.a].photoURLs) = MaxImages
    /\ posts[last.a].photoURL = posts[last.a].photoURLs[1]
    /\ posts[last.a].photoURLs[1] # posts[last.a].photoURLs[2]

\* C15: when createPost throws while it reads, uploads or fetches the URL of
\* image k (or writes the post), no post document is written and the blobs
\* of images 1..k-1 of the call are in storage; no step deletes a blob.
C15_FailedCreateKeepsBlobs ==
    [][ /\ storage \subseteq storage'
        /\ \A s \in Sess :
             LET c == call[s]
                 k == IF c.pc = "add" THEN Len(c.snap) + 1 ELSE c.n
             IN  (c.op = "createPost" /\ call'[s] = Idle /\ ~last'.ok) =>
                    /\ last'.op = "createPost.thrown"
                    /\ posts' = posts /\ made' = made
                    /\ \A i \in 1..(k - 1) :
                          StorageRef(c.p, i) \in storage' ]_vars

C15_Witness ==
    /\ last.op = "createPost.thrown"
    /\ last.b = 2
    /\ StorageRef(last.a, 1) \in storage
    /\ posts = << >>

\* C16 as stated: once register is fulfilled for account u, users[u] exists
\* with id u, and its stored following, followers and savedPosts are empty
\* lists.
C16_RegisteredListsEmpty ==
    (last.op = "register.fulfilled" /\ last.ok) =>
        LET u == last.a
        IN  /\ u \in accounts
            /\ u \in DOMAIN users
            /\ users[u].id = u
            /\ ListFields \subseteq users[u].has
            /\ users[u].following = << >>
            /\ users[u].followers = << >>
            /\ users[u].savedPosts = << >>

\* C16 amended: registerUser's write leaves users[u] with id u and with none
\* of following / followers / savedPosts stored (getUserProfile reads the
\* missing lists as []); once register is fulfilled users[u] exists with
\* id u, for an account u of the identity provider.
C16_RegisteredDocument ==
    [][ /\ (last'.op = "register.setDoc" /\ last'.ok) =>
              LET u == last'.a
              IN  /\ u \in accounts
                  /\ u \in DOMAIN users'
                  /\ users'[u].id = u
                  /\ users'[u].has = {}
                  /\ Following(users', u) = << >>
                  /\ Followers(users', u) = << >>
                  /\ \A v \in DOMAIN users' \ {u} :
                        v \in DOMAIN users /\ users'[v] = users[v]
        /\ (last'.op = "register.fulfilled" /\ last'.ok) =>
              LET u == last'.a
              IN  /\ u \in accounts
                  /\ u \in DOMAIN users'
                  /\ users'[u].id = u ]_vars

C16_Witness ==
    /\ last.op = "register.fulfilled" /\ last.ok
    /\ last.a \in DOMAIN users
    /\ users[last.a].has = {}

\* C17: when login is fulfilled for account u, users[u] exists; a profile
\* login synthesized has id u and the three lists stored empty; login writes
\* the synthesized profile only where no document exists, so that it never
\* overwrites an existing profile.
C17_LoginNeverOverwrites ==
    [][ (last'.op = "login.fulfilled" /\ last'.ok) =>
          LET u == last'.a
          IN  /\ u \in DOMAIN users'
              /\ last'.pre = 1 =>
                    /\ users'[u] = UserDoc(u, ListFields, << >>, << >>, << >>)
                    /\ u \notin DOMAIN users
              /\ last'.pre = 0 => users' = users ]_vars

\* -------------------------------------------------------- state containers

\* the thunks of the two containers
ListThunks ==
    {"fetchAllPosts", "fetchUserPosts", "fetchFollowingPosts",
     "refreshFollowingPosts", "fetchSavedPosts"}
PostsThunks == ListThunks \cup {"fetchPostById", "addNewPost", "editPost", "removePost"}
AuthThunks == {"login", "register", "logout"}

\* a post as a container caches it: its id and which revision of it was read
CachedPost(id, rev) == [id |-> id, rev |-> rev]

\* what the data layer can hand a thunk: posts, lists of posts, a post id,
\* a user, an error message
PostPayloads == {CachedPost(1, 0), CachedPost(1, 1), CachedPost(2, 0)}
ListPayloads == {<< >>, << CachedPost(1, 0) >>,
                 << CachedPost(2, 0), CachedPost(1, 1) >>}
Messages == {"permission-denied", "unavailable"}

Payloads(thunk) ==
    IF thunk \in ListThunks THEN ListPayloads
    ELSE IF thunk \in {"fetchPostById", "editPost"}
    THEN PostPayloads \cup {NullPost}
    ELSE IF thunk = "addNewPost" THEN PostPayloads
    ELSE IF thunk = "removePost" THEN {1, 2}
    ELSE IF thunk = "logout" THEN {NullUser}
    ELSE IF thunk = "login" THEN Uid
    ELSE Uid \cup {NullUser}

\* posts.map(post => post.id === payload?.id ? payload : post)
ReplaceById(list, payload) ==
    [i \in 1..Len(list) |-> IF list[i].id = payload.id THEN payload ELSE list[i]]

\* posts.filter(post => post.id !== id)
WithoutId(list, id) == SelectSeq(list, LAMBDA x : x.id # id)

\* a posts container whose refreshFollowingPosts.rejected case clears
\* loading like the other rejected cases
PostsRejectedClearsLoading(st, thunk, message) ==
    [st EXCEPT !.loading = FALSE, !.refreshing = FALSE, !.error = message]

\* the posts container's rejected cases
PostsRejected(st, thunk, message) ==
    IF thunk = "refreshFollowingPosts"
    THEN [st EXCEPT !.refreshing = FALSE, !.error = message]
    ELSE [st EXCEPT !.loading = FALSE, !.error = message]

\* the posts container's pending cases
PostsPending(st, thunk) ==
    IF thunk = "refreshFollowingPosts"
    THEN [st EXCEPT !.refreshing = TRUE, !.error = Null]
    ELSE [st EXCEPT !.loading = TRUE, !.error = Null]

\* the posts container's fulfilled cases
PostsFulfilled(st, thunk, payload) ==
    CASE thunk \in {"fetchAllPosts", "fetchFollowingPosts"} ->
            [st EXCEPT !.loading = FALSE, !.posts = payload]
      [] thunk = "refreshFollowingPosts" ->
            [st EXCEPT !.refreshing = FALSE, !.posts = payload]
      [] thunk = "fetchUserPosts" ->
            [st EXCEPT !.loading = FALSE, !.userPosts = payload]
      [] thunk = "fetchSavedPosts" ->
            [st EXCEPT !.loading = FALSE, !.savedPosts = payload]
      [] thunk = "fetchPostById" ->
            [st EXCEPT !.loading = FALSE, !.currentPost = payload]
      [] thunk = "addNewPost" ->
            [st EXCEPT !.loading = FALSE,
                       !.posts = << payload >> \o @,
                       !.userPosts = << payload >> \o @]
      [] thunk = "editPost" ->
            [st EXCEPT !.loading = FALSE,
                       !.currentPost = payload,
                       !.posts = ReplaceById(@, payload),
                       !.userPosts = ReplaceById(@, payload)]
      [] thunk = "removePost" ->
            [st EXCEPT !.loading = FALSE,
                       !.posts = WithoutId(@, payload),
                       !.userPosts = WithoutId(@, payload),
                       !.currentPost = IF @ # NullPost /\ @.id = payload
                                       THEN NullPost ELSE @]

\* the posts container: extraReducers; an action of another slice's thunk
\* matches no case
PostsReducer(st, thunk, phase, payload) ==
    IF thunk \notin PostsThunks THEN st
    ELSE CASE phase = "pending"   -> PostsPending(st, thunk)
           [] phase = "fulfilled" -> PostsFulfilled(st, thunk, payload)
           [] phase = "rejected"  -> PostsRejected(st, thunk, payload)

\* an auth container whose rejected cases drop the cached user
AuthRejectedDropsUser(st, thunk, message) ==
    [st EXCEPT !.loading = FALSE, !.error = message, !.user = NullUser]

\* the auth container's rejected cases
AuthRejected(st, thunk, message) ==
    [st EXCEPT !.loading = FALSE, !.error = message]

\* the auth container: extraReducers
AuthReducer(st, thunk, phase, payload) ==
    IF thunk \notin AuthThunks THEN st
    ELSE CASE phase = "pending" ->
                IF thunk = "logout" THEN [st EXCEPT !.loading = TRUE]
                ELSE [st EXCEPT !.loading = TRUE, !.error = Null]
           [] phase = "fulfilled" ->
                [st EXCEPT !.loading = FALSE,
                           !.user = IF thunk = "logout" THEN NullUser ELSE payload]
           [] phase = "rejected" -> AuthRejected(st, thunk, payload)

\* the store's dispatch: every reducer sees the action
Reduce(thunk, phase, payload) ==
    /\ postsSlice' = PostsReducer(postsSlice, thunk, phase, payload)
    /\ authSlice' = AuthReducer(authSlice, thunk, phase, payload)

\* a thunk as the containers see it, <<thunk, phase, message>>
ThunkStep(thunk, phase, message) == << thunk, phase, message >>

\* dispatch(thunk(arg)): createAsyncThunk dispatches pending at once
DispatchThunk(s, thunk) ==
    /\ call[s] = Idle
    /\ IssuePost
    /\ call' = [call EXCEPT ![s] = Locals(thunk, "pending", 0, 0, 0, <<>>, 0)]
    /\ Reduce(thunk, "pending", Null)
    /\ Record("thunk", TRUE, 0, 0, 0, ThunkStep(thunk, "pending", Null))
    /\ UNCHANGED <<userStore, postStore, storage>>

\* the payload creator returned: fulfilled is dispatched with its result
ThunkFulfilled(s) ==
    /\ call[s].pc = "pending"
    /\ Return(s)
    /\ \E payload \in Payloads(call[s].op) :
          Reduce(call[s].op, "fulfilled", payload)
    /\ Record("thunk", TRUE, 0, 0, 0, ThunkStep(call[s].op, "fulfilled", Null))
    /\ UNCHANGED <<userStore, postStore, ops, storage>>

\* the payload creator caught an error: rejectWithValue(error.message)
ThunkRejected(s, message) ==
    /\ call[s].pc = "pending"
    /\ Return(s)
    /\ Reduce(call[s].op, "rejected", message)
    /\ Record("thunk", FALSE, 0, 0, 0, ThunkStep(call[s].op, "rejected", message))
    /\ UNCHANGED <<userStore, postStore, ops, storage>>

NextSlices ==
    \/ \E s \in Sess, thunk \in PostsThunks \cup AuthThunks : DispatchThunk(s, thunk)
    \/ \E s \in Sess : ThunkFulfilled(s)
    \/ \E s \in Sess, message \in Messages : ThunkRejected(s, message)

SpecSlices == Init /\ [][NextSlices]_vars

\* the cached values of the posts container
CachedPosts(st) == << st.posts, st.userPosts, st.savedPosts, st.currentPost >>

\* C18 as stated: when a thunk is rejected, its container has the message in
\* error and loading cleared, the cached values of both containers are what
\* they were, and the call is over (nothing is dispatched again for it).
C18_RejectedClearsLoading ==
    [][ (last'.op = "thunk" /\ last'.out[2] = "rejected") =>
          LET thunk == last'.out[1]
              msg   == last'.out[3]
          IN  /\ CachedPosts(postsSlice') = CachedPosts(postsSlice)
              /\ authSlice'.user = authSlice.user
              /\ thunk \in PostsThunks =>
                    /\ postsSlice'.error = msg
                    /\ postsSlice'.loading = FALSE
              /\ thunk \in AuthThunks =>
                    /\ authSlice'.error = msg
                    /\ authSlice'.loading = FALSE
              /\ ops' = ops ]_vars

\* C18 amended: the same, except that the rejected refreshFollowingPosts
\* clears refreshing and leaves loading as it is; the pending step of every
\* thunk leaves the cached values as they are too; a rejected posts thunk
\* leaves the auth container untouched and the other way round.
C18_RejectedKeepsCache ==
    [][ /\ (last'.op = "thunk" /\ last'.out[2] = "rejected") =>
              LET thunk == last'.out[1]
                  msg   == last'.out[3]
              IN  /\ CachedPosts(postsSlice') = CachedPosts(postsSlice)
                  /\ authSlice'.user = authSlice.user
                  /\ thunk \in PostsThunks =>
                        /\ postsSlice'.error = msg
                        /\ authSlice' = authSlice
                        /\ IF thunk = "refreshFollowingPosts"
                           THEN /\ postsSlice'.refreshing = FALSE
                                /\ postsSlice'.loading = postsSlice.loading
                           ELSE /\ postsSlice'.loading = FALSE
                                /\ postsSlice'.refreshing = postsSlice.refreshing
                  /\ thunk \in AuthThunks =>
                        /\ authSlice'.error = msg
                        /\ authSlice'.loading = FALSE
                        /\ postsSlice' = postsSlice
                  /\ ops' = ops
                  /\ \A s \in Sess : call'[s] # call[s] => call'[s] = Idle
        /\ (last'.op = "thunk" /\ last'.out[2] = "pending") =>
              /\ CachedPosts(postsSlice') = CachedPosts(postsSlice)
              /\ authSlice'.user = authSlice.user ]_vars

C18_Witness ==
    /\ last.op = "thunk"
    /\ last.out = ThunkStep("refreshFollowingPosts", "rejected", "unavailable")
    /\ postsSlice.error = "unavailable"
    /\ postsSlice.loading
    /\ ~postsSlice.refreshing
    /\ postsSlice.posts # << >>

\* ----------------------------------------------------------- saved posts

\* post ids a caller passes to savePost / unsavePost: the store is not asked
\* whether the post exists
SaveArg == {1, GhostPost}

\* getUserProfile's / checkIfUserSavedPost's view: a missing list reads as []
SavedPosts(us, u) == IF u \in DOMAIN us THEN us[u].savedPosts ELSE <<>>

\* a savePost that puts the id into another list of the document
SaveWriteOtherField(p, u) == ArrayWrite(u, "following", "union", p)

\* savePost: update({savedPosts: arrayUnion(postId)})
SaveWrite(p, u) == ArrayWrite(u, "savedPosts", "union", p)

\* unsavePost: update({savedPosts: arrayRemove(postId)})
UnsaveWrite(p, u) == ArrayWrite(u, "savedPosts", "remove", p)

\* savePost: one update on users/{userId}; it throws when the document is
\* missing or the store does not take the write
SavePost(p, u) ==
    \E up \in BOOLEAN :
        /\ Issue
        /\ users' = UserBatchCommit(users, << SaveWrite(p, u) >>, up)
        /\ Record("savePost", UserBatchOk(users, << SaveWrite(p, u) >>, up),
                  p, u, 0, <<>>)
        /\ UNCHANGED <<accounts, call, postStore, storage, slices>>

UnsavePost(p, u) ==
    \E up \in BOOLEAN :
        /\ Issue
        /\ users' = UserBatchCommit(users, << UnsaveWrite(p, u) >>, up)
        /\ Record("unsavePost", UserBatchOk(users, << UnsaveWrite(p, u) >>, up),
                  p, u, 0, <<>>)
        /\ UNCHANGED <<accounts, call, postStore, storage, slices>>

\* checkIfUserSavedPost: reads users/{userId}; ok is the value returned,
\* false when the read throws; pre is 1 when the read was served
CheckIfUserSavedPost(p, u) ==
    \E up \in BOOLEAN :
        /\ Record("checkIfUserSavedPost",
                  up /\ p \in Range(SavedPosts(users, u)), p, u,
                  IF up THEN 1 ELSE 0, <<>>)
        /\ UNCHANGED <<userStore, postStore, ops, call, storage, slices>>

NextSaves ==
    \/ \E s \in Sess, u \in Uid : RegisterCreateAccount(s, u)
    \/ \E s \in Sess : RegisterSetDoc(s)
    \/ \E s \in Sess : RegisterGetProfile(s)
    \/ \E s \in Sess, u \in Uid : LoginSignIn(s, u)
    \/ \E s \in Sess : LoginGetProfile(s)
    \/ \E s \in Sess : LoginCreateProfile(s)
    \/ \E p \in SaveArg, u \in Uid : SavePost(p, u)
    \/ \E p \in SaveArg, u \in Uid : UnsavePost(p, u)
    \/ \E p \in SaveArg, u \in Uid : CheckIfUserSavedPost(p, u)

SpecSaves == Init /\ [][NextSaves]_vars

\* C20 as stated: after a successful savePost(P,U) the check that follows
\* returns true, after a successful unsavePost(P,U) it returns false; no
\* savedPosts list ever holds an id twice, and savePost of a saved post
\* changes nothing.
C20_SaveThenCheckTrue ==
    [][ LET p == last'.a
            u == last'.b
        IN  /\ (last'.op = "savePost" /\ last'.ok) =>
                  /\ p \in Range(SavedPosts(users', u))
                  /\ p \in Range(SavedPosts(users, u)) =>
                        SavedPosts(users', u) = SavedPosts(users, u)
            /\ (last'.op = "unsavePost" /\ last'.ok) =>
                  p \notin Range(SavedPosts(users', u))
            /\ (last'.op = "checkIfUserSavedPost" /\ last.op = "savePost"
                /\ last.ok /\ SamePair(last, last')) => last'.ok
            /\ (last'.op = "checkIfUserSavedPost" /\ last.op = "unsavePost"
                /\ last.ok /\ SamePair(last, last')) => ~last'.ok
            /\ \A v \in DOMAIN users' : NoDup(users'[v].savedPosts) ]_vars

\* C20 amended: the same, except that the check after savePost returns true
\* exactly when its read of the user document is served; a read that throws
\* makes it return false. savePost / unsavePost touch no other user and no
\* other list.
C20_SaveUnsaveCheck ==
    [][ LET p == last'.a
            u == last'.b
        IN  /\ (last'.op = "savePost" /\ last'.ok) =>
                  /\ p \in Range(SavedPosts(users', u))
                  /\ p \in Range(SavedPosts(users, u)) =>
                        SavedPosts(users', u) = SavedPosts(users, u)
            /\ (last'.op = "unsavePost" /\ last'.ok) =>
                  p \notin Range(SavedPosts(users', u))
            /\ (last'.op \in {"savePost", "unsavePost"}) =>
                  /\ DOMAIN users' = DOMAIN users
                  /\ \A v \in DOMAIN users :
                        /\ v # u => users'[v] = users[v]
                        /\ users'[v].following = users[v].following
                        /\ users'[v].followers = users[v].followers
                        /\ \A q \in SaveArg \ {p} :
                              q \in Range(users'[v].savedPosts)
                                 <=> q \in Range(users[v].savedPosts)
                  /\ ~last'.ok => users' = users
            /\ (last'.op = "checkIfUserSavedPost" /\ last.op = "savePost"
                /\ last.ok /\ SamePair(last, last')) =>
                  (last'.ok <=> last'.pre = 1)
            /\ (last'.op = "checkIfUserSavedPost" /\ last.op = "unsavePost"
                /\ last.ok /\ SamePair(last, last')) => ~last'.ok
            /\ \A v \in DOMAIN users' : NoDup(users'[v].savedPosts) ]_vars

C20_Witness ==
    /\ last.op = "savePost" /\ last.ok
    /\ \E u \in DOMAIN users :
          /\ last.b = u
          /\ users[u].savedPosts = << GhostPost, 1 >>
          /\ last.a = GhostPost

\* ------------------------------------------------------------------------
\* Firestore rules of the posts collection. A request carries the caller's
\* identity (request.auth), the stored document (resource.data) and the
\* document as it would be after the write (request.resource.data); the
\* store applies the write only when the rule allows it.

MaxCount == 2

\* request.auth == null
NoAuth == 0

Auths == Uid \cup {NoAuth}

RulePost == 1

RuleFields ==
    {"userId", "createdAt", "username", "title", "likes", "comments",
     "connectedPosts", "originalRecipeId", "isOriginalRecipe"}

LinkFields == {"connectedPosts", "originalRecipeId", "isOriginalRecipe"}

\* the documents a request can carry; every field but the counters has two
\* values, which is enough for a write to change it or leave it
RuleDocs ==
    [userId : Uid, createdAt : 0..1, username : 0..1, title : 0..1,
     likes : 0..MaxCount, comments : 0..MaxCount, connectedPosts : 0..1,
     originalRecipeId : 0..1, isOriginalRecipe : 0..1]

MaxPatch == 2      \* fields one update request writes

FieldValues(f) ==
    CASE f = "userId" -> Uid
      [] f \in {"likes", "comments"} -> 0..MaxCount
      [] OTHER -> 0..1

\* the documents that come from writing up to n fields of d
RECURSIVE Patched(_, _)
Patched(d, n) ==
    IF n = 0 THEN {d}
    ELSE UNION {{[e EXCEPT ![f] = v] : v \in FieldValues(f), e \in Patched(d, n - 1)}
                  : f \in RuleFields}

\* request.resource.data.diff(resource.data).affectedKeys()
AffectedKeys(new, old) == {f \in RuleFields : new[f] # old[f]}

onlyUpdatingFields(new, old, fields) == AffectedKeys(new, old) \subseteq fields

isIncrementingCommentCount(new, old) ==
    /\ new.comments > old.comments
    /\ new.comments <= old.comments + 1

isValidLikeUpdate(new, old) ==
    \/ new.likes = old.likes + 1
    \/ new.likes = old.likes - 1

AllowPostUpdate(auth, new, old) ==
    /\ auth # NoAuth
    /\ \/ auth = old.userId
       \/ /\ "userId" \notin AffectedKeys(new, old)
          /\ "createdAt" \notin AffectedKeys(new, old)
          /\ "username" \notin AffectedKeys(new, old)
       \/ onlyUpdatingFields(new, old, {"comments"})
            /\ isIncrementingCommentCount(new, old)
       \/ onlyUpdatingFields(new, old, {"likes"})
            /\ isValidLikeUpdate(new, old)

AllowPostCreate(auth, new) == auth # NoAuth /\ auth = new.userId

AllowPostDelete(auth, old) == auth # NoAuth /\ auth = old.userId

\* a create request on posts/{RulePost}
PostCreateRequest(auth, new) ==
    /\ RulePost \notin DOMAIN posts
    /\ posts' = IF AllowPostCreate(auth, new)
                THEN SetDoc(posts, RulePost, new) ELSE posts
    /\ Record("rules.create", AllowPostCreate(auth, new), auth, RulePost,
              0, <<>>)
    /\ UNCHANGED <<accounts, userStore, likes, comments, made, ops, call,
                   storage, slices>>

\* an update request on posts/{RulePost} that writes up to MaxPatch fields
PostUpdate(auth, new) ==
    /\ posts' = IF AllowPostUpdate(auth, new, posts[RulePost])
                THEN SetDoc(posts, RulePost, new) ELSE posts
    /\ Record("rules.update", AllowPostUpdate(auth, new, posts[RulePost]),
              auth, RulePost, 0, <<>>)
    /\ UNCHANGED <<accounts, userStore, likes, comments, made, ops, call,
                   storage, slices>>

PostUpdateRequest(auth) ==
    /\ RulePost \in DOMAIN posts
    /\ \E new \in Patched(posts[RulePost], MaxPatch) : PostUpdate(auth, new)

\* a delete request on posts/{RulePost}
PostDeleteRequest(auth) ==
    /\ RulePost \in DOMAIN posts
    /\ posts' = IF AllowPostDelete(auth, posts[RulePost])
                THEN [q \in DOMAIN posts \ {RulePost} |-> posts[q]]
                ELSE posts
    /\ Record("rules.delete", AllowPostDelete(auth, posts[RulePost]),
              auth, RulePost, 0, <<>>)
    /\ UNCHANGED <<accounts, userStore, likes, comments, made, ops, call,
                   storage, slices>>

NextRules ==
    \/ \E auth \in Auths, new \in RuleDocs : PostCreateRequest(auth, new)
    \/ \E auth \in Auths : PostUpdateRequest(auth)
    \/ \E auth \in Auths : PostDeleteRequest(auth)

SpecRules == Init /\ [][NextRules]_vars

\* C19: an update of a post that the rules allow for an authenticated user
\* who is not its author changes exactly the comments counter by +1, or
\* exactly the likes counter by +1 or -1, or only the link fields
\* connectedPosts / originalRecipeId / isOriginalRecipe; a non-author update
\* touching any other field is denied.
C19_NonAuthorUpdates ==
    [][ (/\ last'.op = "rules.update" /\ last'.ok
         /\ RulePost \in DOMAIN posts
         /\ last'.a # posts[RulePost].userId) =>
            LET old == posts[RulePost]
                new == posts'[RulePost]
            IN  \/ /\ AffectedKeys(new, old) = {"comments"}
                   /\ new.comments = old.comments + 1
                \/ /\ AffectedKeys(new, old) = {"likes"}
                   /\ new.likes \in {old.likes + 1, old.likes - 1}
                \/ AffectedKeys(new, old) \subseteq LinkFields ]_vars

\* C21: followUser is idempotent in effect: a followUser(A,B) that directly
\* follows a successful followUser(A,B) is not rejected (it succeeds whenever
\* the store takes the commit) and leaves every user document, so
\* users[A].following and users[B].followers, as the first call left it, with
\* no id twice; the same holds for a repeated unfollowUser(A,B).
C21_RepeatedFollowIdempotent ==
    [][ (/\ last.op \in {"followUser", "unfollowUser"} /\ last.ok
         /\ last'.op = last.op /\ SamePair(last, last')) =>
            /\ last'.pre = 1 => last'.ok
            /\ users' = users
            /\ NoDup(Following(users', last'.a))
            /\ NoDup(Followers(users', last'.b))
            /\ last.op = "followUser" =>
                  /\ IsFollowing(users', last'.a, last'.b)
                  /\ IsFollower(users', last'.b, last'.a)
            /\ last.op = "unfollowUser" =>
                  /\ ~IsFollowing(users', last'.a, last'.b)
                  /\ ~IsFollower(users', last'.b, last'.a) ]_vars

\* a second followUser(A,B) of two users has succeeded right after the first
C21_Witness ==
    /\ last.op = "followUser" /\ last.ok
    /\ prev.op = "followUser" /\ prev.ok /\ SamePair(prev, last)
    /\ last.a # last.b
    /\ Following(users, last.a) = << last.b >>

\* C22: connectPostToRecipe commits the list it read plus its own id, so two
\* connects to the same original that both read before either commits lose
\* an update: the second commit writes a list without the id the first one
\* added. The state where both new posts carry originalRecipeId = original
\* and connectedPosts holds only one of them is reachable (C22_Witness).
C22_ConnectWritesReadSnapshot ==
    [][ (last'.op = "connect.commit" /\ last'.ok) =>
          LET original == last'.a
              new      == last'.b
          IN  /\ new \in DOMAIN posts'
              /\ posts'[new].orig = original
              /\ posts'[new].isOrig = "false"
              /\ last'.pre = 1 =>
                    /\ Connected(posts', original) = Append(last'.out, new)
                    /\ \A id \in Range(Connected(posts, original)) :
                          id \in Range(Connected(posts', original))
                             <=> id \in Range(last'.out) \cup {new} ]_vars

C22_Witness ==
    /\ last.op = "connect.commit" /\ last.ok
    /\ \E original, n1, n2 \in DOMAIN posts :
          /\ original # n1 /\ original # n2 /\ n1 # n2
          /\ posts[n1].orig = original /\ posts[n1].isOrig = "false"
          /\ posts[n2].orig = original /\ posts[n2].isOrig = "false"
          /\ Connected(posts, original) = << n2 >>
          /\ last.b = n2

\* C23: addComment writes the counter it read plus 1, whatever the counter is
\* at the time of the write, so two addComment calls on one post that both
\* read before either writes under-count: two new comment documents exist
\* and posts[P].comments increases by only 1.
C23_CommentCountFromRead ==
    [][ (last'.op = "addComment.returned" /\ last'.a \in DOMAIN posts) =>
          /\ posts' = [posts EXCEPT ![last'.a].comments = last'.pre + 1]
          /\ comments' = comments
          /\ \E i \in 1..Len(comments) :
                /\ comments[i].postId = last'.a
                /\ comments[i].userId = last'.b ]_vars

\* both calls have added their comment and read comments = 0; one has written
\* 1 and the other is about to write 1 again
C23_Witness ==
    /\ last.op = "addComment.returned" /\ last.ok
    /\ last.a = 1 /\ last.pre = 0
    /\ Len(CommentsOf(comments, 1)) = 2
    /\ posts[1].comments = 1
    /\ \E s \in Sess :
          /\ InCall(s, "addComment", "update")
          /\ call[s].p = 1
          /\ call[s].n = 0

\* a post in no connectedPosts list
Unlisted(ps, q) == \A p \in DOMAIN ps : q \notin Range(ps[p].conn)

\* C24: createConnectedPost is not atomic across its two steps: its createPost
\* step stores the new post without originalRecipeId and in no connectedPosts
\* list; the steps of connectPostToRecipe up to the commit change no post; and
\* when connectPostToRecipe throws, the call ends there and changes nothing:
\* the new post stays stored as createPost wrote it, unlinked, and the call
\* neither deletes it nor links it later.
C24_OrphanedRemake ==
    [][ \A s \in Sess :
          /\ (call[s] = Idle /\ call'[s].op = "createConnectedPost") =>
                LET new == call'[s].q
                IN  /\ new \notin DOMAIN posts
                    /\ posts' = SetDoc(posts, new, posts'[new])
                    /\ posts'[new].orig = 0
                    /\ posts'[new].isOrig = "false"
                    /\ Unlisted(posts', new)
          /\ (/\ call[s].op = "createConnectedPost"
              /\ call[s].pc \in {"connectRead", "connectCommit"}
              /\ call'[s] # call[s]
              /\ last'.op # "connect.commit") =>
                /\ posts' = posts /\ likes' = likes /\ comments' = comments
                /\ \/ call[s].pc = "connectRead" /\ call'[s].pc = "connectCommit"
                   \/ call'[s] = Idle /\ last'.op = "createConnectedPost.thrown"
          /\ (call[s].op = "createConnectedPost" /\ call'[s] = call[s]) =>
                \/ call[s].q \notin DOMAIN posts
                \/ call[s].q \in DOMAIN posts'
                \/ last'.op = "deletePost" ]_vars

\* a remake that createConnectedPost created and failed to connect: it is
\* stored, is not an original, has no originalRecipeId, and no list holds it
C24_Witness ==
    /\ last.op = "createConnectedPost.thrown"
    /\ \A s \in Sess : call[s] = Idle
    /\ made = 2 /\ ops = 2
    /\ DOMAIN posts = {1, 2}
    /\ posts[1].isOrig = "true"
    /\ posts[2].isOrig = "false" /\ posts[2].orig = 0
    /\ Unlisted(posts, 2)

\* ------------------------------------------------------------- deletePost
\* deletePost next to everything that can reference a post: remakes and
\* connectedPosts lists, like edges, comments, users' savedPosts

\* removePost thunk with a cascade: the like edges of the post go with it
RemovePostCascade(p) ==
    \E up \in BOOLEAN :
        LET pending == PostsReducer(postsSlice, "removePost", "pending", Null)
        IN  /\ Issue
            /\ posts' = IF up THEN [x \in (DOMAIN posts) \ {p} |-> posts[x]]
                        ELSE posts
            /\ likes' = IF up THEN {e \in likes : e[1] # p} ELSE likes
            /\ postsSlice' =
                 IF up THEN PostsReducer(pending, "removePost", "fulfilled", p)
                 ELSE PostsReducer(pending, "removePost", "rejected", "unavailable")
            /\ Record("removePost", up, p, 0, 0, <<>>)
            /\ UNCHANGED <<userStore, comments, made, call, storage, authSlice>>

\* removePost thunk: pending, await deletePost(postId), then fulfilled with
\* the id or rejected with the error message
RemovePost(p) ==
    \E up \in BOOLEAN :
        LET pending == PostsReducer(postsSlice, "removePost", "pending", Null)
        IN  /\ Issue
            /\ posts' = IF up THEN [x \in (DOMAIN posts) \ {p} |-> posts[x]]
                        ELSE posts
            /\ postsSlice' =
                 IF up THEN PostsReducer(pending, "removePost", "fulfilled", p)
                 ELSE PostsReducer(pending, "removePost", "rejected", "unavailable")
            /\ Record("removePost", up, p, 0, 0, <<>>)
            /\ UNCHANGED <<userStore, likes, comments, made, call, storage,
                           authSlice>>

\* the ids of stored posts
Stored == DOMAIN posts

NextDelete ==
    \/ \E s \in Sess, u \in Uid : RegisterCreateAccount(s, u)
    \/ \E s \in Sess : RegisterSetDoc(s)
    \/ \E s \in Sess : RegisterGetProfile(s)
    \/ \E u \in Uid : CreatePost(u, ScreenOriginal)
    \/ \E s \in Sess, u \in Uid, o \in Stored :
          CreateConnectedPost(s, u, ScreenRemake, o)
    \/ \E s \in Sess : CreateConnectedRead(s)
    \/ \E s \in Sess : ConnectCommit(s)
    \/ \E s \in Sess : CreateConnectedReturn(s)
    \/ \E p \in Stored, u \in Uid : LikePost(p, u)
    \/ \E s \in Sess, p \in Stored, u \in Uid : AddCommentAdd(s, p, u)
    \/ \E s \in Sess : AddCommentReadPost(s)
    \/ \E s \in Sess : AddCommentUpdate(s)
    \/ \E p \in Stored, u \in Uid : SavePost(p, u)
    \/ \E p \in PostArg : DeletePost(p)
    \/ \E p \in PostArg : RemovePost(p)

SpecDelete == Init /\ [][NextDelete]_vars

\* C25: deletePost(P) removes only the document posts[P]: every other post
\* is left as it is, so a remake that references P keeps originalRecipeId = P
\* and isOriginalRecipe false and an original that lists P keeps P in
\* connectedPosts; comments, like edges and user documents (savedPosts) that
\* reference P are unchanged. A deletePost that throws changes nothing.
C25_DeleteOnlyThePost ==
    [][ last'.op \in {"deletePost", "removePost"} =>
          LET P == last'.a
          IN  /\ posts' = [x \in (DOMAIN posts) \ (IF last'.ok THEN {P} ELSE {})
                             |-> posts[x]]
              /\ \A r \in (DOMAIN posts) \ {P} :
                    /\ r \in DOMAIN posts'
                    /\ posts'[r].orig = posts[r].orig
                    /\ posts'[r].isOrig = posts[r].isOrig
                    /\ posts'[r].conn = posts[r].conn
              /\ comments' = comments
              /\ likes' = likes
              /\ users' = users
              /\ accounts' = accounts
              /\ storage' = storage ]_vars

\* post 1 was deleted: its remake still names it, and a like edge on it stays
C25_Witness ==
    /\ last.op = "removePost" /\ last.ok /\ last.a = 1
    /\ 1 \notin DOMAIN posts
    /\ 2 \in DOMAIN posts
    /\ posts[2].orig = 1 /\ posts[2].isOrig = "false"
    /\ \E u \in Uid : << 1, u >> \in likes

\* createPost when a storage upload may never complete: every other await
\* settles and a timer that was set fires, but nothing makes the storage
\* service settle a put / putString
SpecCreateLive ==
    /\ SpecCreate
    /\ \A s \in Sess :
          /\ WF_vars(CreatePostRead(s))
          /\ WF_vars(UploadTimesOut(s))
          /\ WF_vars(CreatePostGetURL(s))
          /\ WF_vars(CreatePostAdd(s))

\* C26: every createPost call eventually returns a post or throws, whatever
\* the encoding of its images, also when a storage upload never completes.
C26_CreatePostReturns ==
    \A s \in Sess : (call[s].op = "createPost") ~> (call[s] = Idle)

\* C27: while a thunk of the posts container is pending its flag is true:
\* refreshing for refreshFollowingPosts, loading for every other posts thunk,
\* also when several thunks overlap.
C27_PendingKeepsFlag ==
    \A s \in Sess :
        (call[s].pc = "pending" /\ call[s].op \in PostsThunks) =>
            IF call[s].op = "refreshFollowingPosts"
            THEN postsSlice.refreshing
            ELSE postsSlice.loading

\* C28: addComment for a post id that has no post document: the comment
\* document is created by the first step and stays; the read of the post
\* ends the call without an update (the missing post is logged, not thrown:
\* the call returns the comment unless the read itself fails); no post
\* document is created or modified by any step of the call.
C28_MissingPostTolerated ==
    [][ \A s \in Sess :
          /\ (call[s] = Idle /\ call'[s].op = "addComment") =>
                /\ posts' = posts
                /\ Len(comments') = Len(comments) + 1
                /\ comments'[Len(comments')].postId = call'[s].p
                /\ comments'[Len(comments')].userId = call'[s].u
          /\ (/\ InCall(s, "addComment", "readPost")
              /\ call[s].p \notin DOMAIN posts
              /\ call'[s] # call[s]) =>
                /\ call'[s] = Idle
                /\ posts' = posts
                /\ comments' = comments
                /\ \E i \in 1..Len(comments) :
                      /\ comments[i].postId = call[s].p
                      /\ comments[i].userId = call[s].u
                /\ last'.op \in {"addComment.returned", "addComment.thrown"}
                /\ last'.op = "addComment.returned" =>
                      /\ last'.ok
                      /\ last'.a = call[s].p /\ last'.b = call[s].u ]_vars

\* addComment(GhostPost, ...) has returned its comment; no such post exists
C28_Witness ==
    /\ last.op = "addComment.returned" /\ last.ok
    /\ last.a = GhostPost
    /\ GhostPost \notin DOMAIN posts
    /\ Len(CommentsOf(comments, GhostPost)) = 1
    /\ \A s \in Sess : call[s] = Idle

\* ------------------------------------------------------ PostDetailsScreen
\* one mounted PostDetailsScreen of a signed-in user u on post p, kept in
\* call[s]: pc is the position of handleRisePost ("ready", or "liking" /
\* "unliking" while risingPost is true), n is isRisen (1 / 0), q the number
\* of checkIfUserLikedPost calls of the isRisen effect in flight, and snap
\* what the store held at the mount, << likes, 1 if the edge p_u existed >>

HasEdge(lk, p, u) == IF << p, u >> \in lk THEN 1 ELSE 0

ScreenLocals(pc, u, p, isRisen, checks, atMount) ==
    Locals("PostDetailsScreen", pc, u, p, checks, atMount, isRisen)

OnScreen(s) == call[s].op = "PostDetailsScreen"

\* the mount: useState(false) for isRisen and risingPost, and the first
\* effect's dispatch(fetchPostById(postId)); the isRisen effect does nothing
\* while currentPost is null
MountScreen(s, p, u) ==
    /\ \A t \in Sess : call[t] = Idle
    /\ postsSlice = PostsInitialState
    /\ call' = [call EXCEPT ![s] =
          ScreenLocals("ready", u, p, 0, 0,
                       << Likes(posts, p), HasEdge(likes, p, u) >>)]
    /\ postsSlice' = PostsReducer(postsSlice, "fetchPostById", "pending", Null)
    /\ Record("mount", TRUE, p, u, 0, <<>>)
    /\ UNCHANGED <<userStore, postStore, ops, storage, authSlice>>

\* fetchPostById settles: fulfilled with getPostById's result, which replaces
\* currentPost and so re-runs the isRisen effect (a check is started when the
\* new currentPost is not null), or rejected
FetchPostByIdSettles(s) ==
    /\ OnScreen(s)
    /\ postsSlice.loading
    /\ \E up \in BOOLEAN :
        LET c       == call[s]
            payload == IF c.p \in DOMAIN posts
                       THEN CachedPost(c.p, posts[c.p].likes) ELSE NullPost
        IN  IF up
            THEN /\ postsSlice' =
                      PostsReducer(postsSlice, "fetchPostById", "fulfilled", payload)
                 /\ call' = [call EXCEPT ![s].q =
                                IF payload # NullPost THEN 1 ELSE @]
                 /\ Record("fetchPostById", TRUE, c.p, c.u, 0, <<>>)
            ELSE /\ postsSlice' =
                      PostsReducer(postsSlice, "fetchPostById", "rejected",
                                   "unavailable")
                 /\ UNCHANGED call
                 /\ Record("fetchPostById", FALSE, c.p, c.u, 0, <<>>)
    /\ UNCHANGED <<userStore, postStore, ops, storage, authSlice>>

\* the isRisen effect's checkIfUserLikedPost(postId, user.id).then(setIsRisen)
CheckSettles(s) ==
    /\ OnScreen(s)
    /\ call[s].q = 1
    /\ \E up \in BOOLEAN :
        LET c      == call[s]
            result == up /\ << c.p, c.u >> \in likes
        IN  /\ call' = [call EXCEPT ![s].q = 0,
                                    ![s].n = IF result THEN 1 ELSE 0]
            /\ Record("checkIfUserLikedPost", result, c.p, c.u,
                      IF up THEN 1 ELSE 0, <<>>)
    /\ UNCHANGED <<userStore, postStore, ops, storage, slices>>

\* a tap on the rise button, which is rendered when loading is false and
\* currentPost is set and is disabled while risingPost: handleRisePost up to
\* its await
TapRise(s) ==
    /\ OnScreen(s)
    /\ call[s].pc = "ready"
    /\ ~postsSlice.loading
    /\ postsSlice.currentPost # NullPost
    /\ IssuePost
    /\ call' = [call EXCEPT ![s].pc =
                   IF call[s].n = 1 THEN "unliking" ELSE "liking"]
    /\ Record("handleRisePost", TRUE, call[s].p, call[s].u, call[s].n, <<>>)
    /\ UNCHANGED <<userStore, postStore, storage, slices>>

\* handleRisePost after its await: likePost / unlikePost came back; on
\* success setIsRisen and dispatch(fetchPostById(postId)), on an error the
\* alert; setRisingPost(false) in either case
RiseSettles(s) ==
    /\ OnScreen(s)
    /\ call[s].pc \in {"liking", "unliking"}
    /\ \E up \in BOOLEAN :
        LET c  == call[s]
            ws == IF c.pc = "liking" THEN LikeWrites(c.p, c.u)
                  ELSE UnlikeWrites(c.p, c.u)
            st == PostBatchCommit(PostState(posts, likes), ws, up)
            ok == PostBatchOk(posts, ws, up)
        IN  /\ posts' = st.posts
            /\ likes' = st.likes
            /\ Record(IF c.pc = "liking" THEN "likePost" ELSE "unlikePost",
                      ok, c.p, c.u, Likes(posts, c.p), <<>>)
            /\ call' = [call EXCEPT
                   ![s].pc = "ready",
                   ![s].n = IF ~ok THEN @
                            ELSE IF c.pc = "liking" THEN 1 ELSE 0]
            /\ postsSlice' =
                   IF ok
                   THEN PostsReducer(postsSlice, "fetchPostById", "pending", Null)
                   ELSE postsSlice
    /\ UNCHANGED <<userStore, comments, made, ops, storage, authSlice>>

\* what happened before the screen was mounted: posts were created, and the
\* user liked / unliked posts in earlier sessions
NextScreen ==
    \/ \E u \in Uid : (\A t \in Sess : call[t] = Idle) /\ CreatePost(u, ScreenOriginal)
    \/ \E p \in Stored, u \in Uid :
          (\A t \in Sess : call[t] = Idle) /\ LikePost(p, u)
    \/ \E p \in Stored, u \in Uid :
          (\A t \in Sess : call[t] = Idle) /\ UnlikePost(p, u)
    \/ \E s \in Sess, p \in Stored, u \in Uid : MountScreen(s, p, u)
    \/ \E s \in Sess : FetchPostByIdSettles(s)
    \/ \E s \in Sess : CheckSettles(s)
    \/ \E s \in Sess : TapRise(s)
    \/ \E s \in Sess : RiseSettles(s)

SpecScreen == Init /\ [][NextScreen]_vars

\* C29: within one PostDetailsScreen session of user U on post P,
\* handleRisePost's likePost(P,U) is carried out only where no like edge P_U
\* exists and its unlikePost(P,U) only where it exists, at most one request
\* is in flight, and posts[P].likes stays equal to its value at the mount
\* plus the net change in U's edge, whenever the taps are made.
C29_ScreenKeepsCount ==
    [][ \A s \in Sess :
          /\ (OnScreen(s) /\ call[s].pc = "liking" /\ call'[s].pc = "ready") =>
                << call[s].p, call[s].u >> \notin likes
          /\ (OnScreen(s) /\ call[s].pc = "unliking" /\ call'[s].pc = "ready") =>
                << call[s].p, call[s].u >> \in likes
          /\ (call'[s].op = "PostDetailsScreen" /\ call'[s].p \in DOMAIN posts') =>
                Likes(posts', call'[s].p)
                   = call'[s].snap[1]
                       + HasEdge(likes', call'[s].p, call'[s].u)
                       - call'[s].snap[2] ]_vars

\* ------------------------------------------- Firestore rules of likes
\* likePost / unlikePost of a signed-in client under the rules: the batch is
\* applied only when every write of it is allowed

\* match /likes/{likeId} allow create
AllowLikeCreate(auth, userId) == auth # NoAuth /\ auth = userId

\* match /likes/{likeId} allow delete; a missing document has no
\* resource.data, which fails the rule
AllowLikeDelete(auth, lk, p, u) ==
    /\ << p, u >> \in lk
    /\ auth # NoAuth /\ auth = u

\* rules that let the owner write its like document (allow write)
AllowLikeSetAsWrite(auth, lk, p, u) == AllowLikeCreate(auth, u)

\* batch.set(likeRef, ...): a create when the document is missing; an update
\* when it exists, for which the likes match has no rule
AllowLikeSet(auth, lk, p, u) ==
    IF << p, u >> \in lk THEN FALSE ELSE AllowLikeCreate(auth, u)

\* the post document after batch.update(postRef, {likes: increment(by)})
Incremented(old, by) == [old EXCEPT !.likes = @ + by]

\* a post as the create screen of user u makes it
FreshRuleDoc(u) ==
    [userId |-> u, createdAt |-> 0, username |-> 0, title |-> 0, likes |-> 0,
     comments |-> 0, connectedPosts |-> 0, originalRecipeId |-> 0,
     isOriginalRecipe |-> 1]

\* likePost(RulePost, u) sent by a client signed in as auth; pre is auth
LikePostRequest(auth, u) ==
    LET exists  == RulePost \in DOMAIN posts
        allowed == /\ exists
                   /\ AllowPostUpdate(auth, Incremented(posts[RulePost], 1),
                                      posts[RulePost])
                   /\ AllowLikeSet(auth, likes, RulePost, u)
    IN  /\ allowed => posts[RulePost].likes < MaxCount
        /\ posts' = IF allowed
                    THEN SetDoc(posts, RulePost, Incremented(posts[RulePost], 1))
                    ELSE posts
        /\ likes' = IF allowed THEN likes \cup {<< RulePost, u >>} ELSE likes
        /\ Record("likePost", allowed, RulePost, u, auth, <<>>)
        /\ UNCHANGED <<userStore, comments, made, ops, call, storage, slices>>

\* unlikePost(RulePost, u) sent by a client signed in as auth; pre is auth
UnlikePostRequest(auth, u) ==
    LET exists  == RulePost \in DOMAIN posts
        allowed == /\ exists
                   /\ AllowPostUpdate(auth, Incremented(posts[RulePost], -1),
                                      posts[RulePost])
                   /\ AllowLikeDelete(auth, likes, RulePost, u)
    IN  /\ allowed => posts[RulePost].likes > 0
        /\ posts' = IF allowed
                    THEN SetDoc(posts, RulePost, Incremented(posts[RulePost], -1))
                    ELSE posts
        /\ likes' = IF allowed THEN likes \ {<< RulePost, u >>} ELSE likes
        /\ Record("unlikePost", allowed, RulePost, u, auth, <<>>)
        /\ UNCHANGED <<userStore, comments, made, ops, call, storage, slices>>

NextRulesLikes ==
    \/ \E auth \in Auths, u \in Uid : PostCreateRequest(auth, FreshRuleDoc(u))
    \/ \E auth \in Auths : PostDeleteRequest(auth)
    \/ \E auth \in Auths, u \in Uid : LikePostRequest(auth, u)
    \/ \E auth \in Auths, u \in Uid : UnlikePostRequest(auth, u)

SpecRulesLikes == Init /\ [][NextRulesLikes]_vars

\* C30: under the rules a likePost(P,U) issued while the like edge P_U
\* exists is rejected as a whole batch: the call throws, posts[P].likes and
\* every post are unchanged, and the edge set is unchanged.
C30_DoubleLikeRejected ==
    [][ (last'.op = "likePost" /\ << last'.a, last'.b >> \in likes) =>
          /\ ~last'.ok
          /\ posts' = posts
          /\ likes' = likes ]_vars

\* user U, signed in, liked a stored post it already likes, and was refused
C30_Witness ==
    /\ last.op = "likePost" /\ ~last.ok
    /\ last.pre = last.b
    /\ << last.a, last.b >> \in likes
    /\ last.a \in DOMAIN posts
    /\ posts[last.a].likes = 1

====
